---- MODULE Spec2Model ----
(***************************************************************************)
(* A model of the Prism runtime of the bowser browser: the dynamic value   *)
(* type and expression evaluator (src/src/ast.rs, src/src/state.rs), the   *)
(* state store (src/src/state.rs), the statement interpreter and event     *)
(* handlers (src/prism/src/runtime.rs) and the measure / paint passes with *)
(* the interactive-region registry (src/src/renderer.rs).                  *)
(*                                                                         *)
(* Conventions.                                                            *)
(*  - A Rust String is a sequence of one-character strings; Utf8Len gives  *)
(*    the byte length of a character, so str::len() and chars().count()    *)
(*    stay different operators.                                            *)
(*  - A HashMap<String, T> is a function whose domain is the set of keys.  *)
(*  - i64 is modelled with IntBits bits; the arithmetic is the same, the   *)
(*    range is [IntMin, IntMax].  An overflowing +, - or * panics in a     *)
(*    build with overflow checks and wraps in a build without them; the    *)
(*    build is the variable overflow_checks, chosen in Init.  A panic is   *)
(*    the outcome Panic.                                                   *)
(*  - The Float and Object variants of Value are not modelled.             *)
(***************************************************************************)
EXTENDS Integers, Sequences, FiniteSets, TLC

VARIABLES
    values,          \* StateStore.values
    locals,          \* StateStore.locals
    dirty,           \* StateStore.dirty
    focused_input,   \* Runtime.focused_input: <<>> (None) or <<binding>>
    current_route,   \* Runtime.current_route
    layout_boxes,    \* Renderer.layout_boxes
    out,             \* the lines the last event handler printed (stdout)
    app,             \* Runtime.app: the loaded application definition
    overflow_checks, \* the build: TRUE panics on integer overflow, FALSE wraps
    browser,         \* the Browser of main.rs; browser.runtime tells whether a Runtime exists
    host,            \* main's event-loop state: frame buffer size, needs_redraw, pending redraw
    ev               \* the last operation: its name, inputs, result and pre-state

vars == <<values, locals, dirty, focused_input, current_route, layout_boxes,
          out, app, overflow_checks, browser, host, ev>>

-----------------------------------------------------------------------------
(* Bounds of the model *)

\* The width of the modelled i64.
IntBits == 4

\* The most regions pushed to the registry of SpecHit.
MaxBoxes == 2

\* The longest text typed into an input.
MaxText == 2

-----------------------------------------------------------------------------
(* Option<T> *)

None == <<>>

Some(x) == <<x>>

IsSome(o) == o # <<>>

Unwrap(o) == o[1]

(* HashMap *)

EmptyMap == <<>>

Has(m, k) == k \in DOMAIN m

Put(m, k, v) == [x \in (DOMAIN m) \cup {k} |-> IF x = k THEN v ELSE m[x]]

-----------------------------------------------------------------------------
(* i64 *)

IntMin == -(2 ^ (IntBits - 1))

IntMax == (2 ^ (IntBits - 1)) - 1

I64 == IntMin .. IntMax

InRange(n) == n >= IntMin /\ n <= IntMax

Wrap(n) == ((n - IntMin) % (2 ^ IntBits)) + IntMin

Abs(n) == IF n < 0 THEN -n ELSE n

TruncDiv(a, b) ==
    IF (a < 0) = (b < 0) THEN Abs(a) \div Abs(b) ELSE -(Abs(a) \div Abs(b))

TruncRem(a, b) == a - b * TruncDiv(a, b)

-----------------------------------------------------------------------------
(* Value: ast.rs *)

Null == [t |-> "null"]

VBool(b) == [t |-> "bool", b |-> b]

VInt(i) == [t |-> "int", i |-> i]

VString(s) == [t |-> "string", s |-> s]

VList(l) == [t |-> "list", l |-> l]

Panic == [t |-> "panic"]

ValueEq(a, b) == a = b

Utf8Len(c) == IF c = "é" THEN 2 ELSE 1

RECURSIVE StrLen(_)
StrLen(s) == IF s = <<>> THEN 0 ELSE Utf8Len(Head(s)) + StrLen(Tail(s))

Digit(d) == CASE d = 0 -> "0" [] d = 1 -> "1" [] d = 2 -> "2" [] d = 3 -> "3"
              [] d = 4 -> "4" [] d = 5 -> "5" [] d = 6 -> "6" [] d = 7 -> "7"
              [] d = 8 -> "8" [] d = 9 -> "9"

RECURSIVE NatToString(_)
NatToString(n) ==
    IF n < 10 THEN <<Digit(n)>> ELSE NatToString(n \div 10) \o <<Digit(n % 10)>>

IntToString(i) == IF i < 0 THEN <<"-">> \o NatToString(-i) ELSE NatToString(i)

BoolToString(b) == IF b THEN <<"t", "r", "u", "e">> ELSE <<"f", "a", "l", "s", "e">>

RECURSIVE as_string(_)
RECURSIVE JoinStrings(_, _)
JoinStrings(items, sep) ==
    IF items = <<>> THEN <<>>
    ELSE IF Len(items) = 1 THEN as_string(items[1])
    ELSE as_string(items[1]) \o sep \o JoinStrings(Tail(items), sep)

as_string(v) ==
    CASE v.t = "null" -> <<>>
      [] v.t = "bool" -> BoolToString(v.b)
      [] v.t = "int" -> IntToString(v.i)
      [] v.t = "string" -> v.s
      [] v.t = "list" -> <<"[">> \o JoinStrings(v.l, <<",", " ">>) \o <<"]">>

DigitValue(c) == CASE c = "0" -> 0 [] c = "1" -> 1 [] c = "2" -> 2 [] c = "3" -> 3
                   [] c = "4" -> 4 [] c = "5" -> 5 [] c = "6" -> 6 [] c = "7" -> 7
                   [] c = "8" -> 8 [] c = "9" -> 9 [] OTHER -> -1

RECURSIVE ParseNat(_, _)
ParseNat(s, acc) ==
    IF s = <<>> THEN acc
    ELSE IF DigitValue(Head(s)) < 0 \/ acc < 0 THEN -1
    ELSE ParseNat(Tail(s), acc * 10 + DigitValue(Head(s)))

ParseInt(s) ==
    IF s = <<>> THEN 0
    ELSE IF Head(s) = "-" /\ Len(s) > 1 /\ ParseNat(Tail(s), 0) >= 0
              /\ InRange(-ParseNat(Tail(s), 0))
         THEN -ParseNat(Tail(s), 0)
    ELSE IF Head(s) = "+" /\ Len(s) > 1 /\ ParseNat(Tail(s), 0) >= 0
              /\ InRange(ParseNat(Tail(s), 0))
         THEN ParseNat(Tail(s), 0)
    ELSE IF ParseNat(s, 0) >= 0 /\ InRange(ParseNat(s, 0)) THEN ParseNat(s, 0)
    ELSE 0

as_int(v) ==
    CASE v.t = "int" -> v.i
      [] v.t = "string" -> ParseInt(v.s)
      [] v.t = "bool" -> IF v.b THEN 1 ELSE 0
      [] v.t = "list" -> Len(v.l)
      [] v.t = "null" -> 0

as_bool(v) ==
    CASE v.t = "null" -> FALSE
      [] v.t = "bool" -> v.b
      [] v.t = "int" -> v.i # 0
      [] v.t = "string" -> v.s # <<>>
      [] v.t = "list" -> v.l # <<>>

as_float(v) == as_int(v)

as_list(v) ==
    CASE v.t = "list" -> v.l
      [] v.t = "string" -> [k \in 1 .. Len(v.s) |-> VString(<<v.s[k]>>)]
      [] OTHER -> <<v>>

type_name(v) ==
    CASE v.t = "null" -> <<"n", "u", "l", "l">>
      [] v.t = "bool" -> <<"b", "o", "o", "l">>
      [] v.t = "int" -> <<"i", "n", "t">>
      [] v.t = "string" -> <<"s", "t", "r", "i", "n", "g">>
      [] v.t = "list" -> <<"l", "i", "s", "t">>

value_len(v) ==
    CASE v.t = "list" -> Len(v.l)
      [] v.t = "string" -> StrLen(v.s)
      [] OTHER -> 0

\* `(len as i64 + idx) as usize` of a negative sum is far beyond any length,
\* so the lookup misses: -1 stands for every such index.
UsizeIndex(len, idx) == IF idx < 0 THEN (IF len + idx < 0 THEN -1 ELSE len + idx) ELSE idx

\* get that indexes a list directly: a miss panics instead of giving Null.
value_get_strict(v, key) ==
    CASE v.t = "list" /\ key.t = "int" ->
            IF key.i >= 0 /\ key.i < Len(v.l) THEN v.l[key.i + 1] ELSE Panic
      [] OTHER -> Null

value_get(v, key) ==
    CASE v.t = "list" /\ key.t = "int" ->
            LET idx == UsizeIndex(Len(v.l), key.i)
            IN  IF idx >= 0 /\ idx < Len(v.l) THEN v.l[idx + 1] ELSE Null
      [] v.t = "string" /\ key.t = "int" ->
            LET idx == UsizeIndex(StrLen(v.s), key.i)
            IN  IF idx >= 0 /\ idx < Len(v.s) THEN VString(<<v.s[idx + 1]>>) ELSE Null
      [] OTHER -> Null

-----------------------------------------------------------------------------
(* Expression: ast.rs.  An expression is a record tagged by e. *)

Literal(v) == [e |-> "Literal", v |-> v]

Variable(n) == [e |-> "Variable", name |-> n]

Binary(l, op, r) == [e |-> "Binary", left |-> l, op |-> op, right |-> r]

Unary(op, x) == [e |-> "Unary", op |-> op, operand |-> x]

IndexAccess(o, i) == [e |-> "IndexAccess", object |-> o, index |-> i]

Conditional(c, a, b) == [e |-> "Conditional", condition |-> c, then_expr |-> a, else_expr |-> b]

Call(f, args) == [e |-> "Call", function |-> f, args |-> args]

MethodCall(o, m, args) == [e |-> "MethodCall", object |-> o, method |-> m, args |-> args]

ListLiteral(items) == [e |-> "ListLiteral", items |-> items]

NullCoalesce(v, d) == [e |-> "NullCoalesce", value |-> v, default |-> d]

-----------------------------------------------------------------------------
(* The evaluator: state.rs.  A store is [values, computed, locals, dirty]. *)

\* i64 +, -, *: exact inside the range; outside it the build decides.
Overflowing(n) ==
    IF InRange(n) THEN VInt(n)
    ELSE IF overflow_checks THEN Panic
    ELSE VInt(Wrap(n))

\* i64 / and %: IntMin / -1 panics in every build.
CheckedDiv(a, b) == IF a = IntMin /\ b = -1 THEN Panic ELSE VInt(TruncDiv(a, b))

CheckedRem(a, b) == IF a = IntMin /\ b = -1 THEN Panic ELSE VInt(TruncRem(a, b))

apply_binary_op(left, op, right) ==
    IF left = Panic \/ right = Panic THEN Panic
    ELSE CASE op = "Add" ->
                (CASE left.t = "int" /\ right.t = "int" -> Overflowing(left.i + right.i)
                   [] left.t = "string" /\ right.t = "string" -> VString(left.s \o right.s)
                   [] left.t = "string" /\ right.t # "string" ->
                        VString(left.s \o as_string(right))
                   [] left.t # "string" /\ right.t = "string" ->
                        VString(as_string(left) \o right.s)
                   [] left.t = "list" /\ right.t = "list" -> VList(left.l \o right.l)
                   [] OTHER -> Overflowing(as_int(left) + as_int(right)))
           [] op = "Sub" -> Overflowing(as_int(left) - as_int(right))
           [] op = "Mul" /\ left.t # "string" /\ right.t # "string" ->
                Overflowing(as_int(left) * as_int(right))
           [] op = "Div" ->
                IF left.t = "int" /\ right.t = "int" /\ right.i # 0
                THEN CheckedDiv(left.i, right.i)
                ELSE VInt(0)
           [] op = "Mod" ->
                IF left.t = "int" /\ right.t = "int" /\ right.i # 0
                THEN CheckedRem(left.i, right.i)
                ELSE VInt(0)
           [] op = "Eq" -> VBool(ValueEq(left, right))
           [] op = "Ne" -> VBool(~ValueEq(left, right))
           [] op = "Lt" -> VBool(as_float(left) < as_float(right))
           [] op = "Gt" -> VBool(as_float(left) > as_float(right))
           [] op = "Le" -> VBool(as_float(left) <= as_float(right))
           [] op = "Ge" -> VBool(as_float(left) >= as_float(right))
           [] op = "And" -> VBool(as_bool(left) /\ as_bool(right))
           [] op = "Or" -> VBool(as_bool(left) \/ as_bool(right))
           [] op = "Concat" -> VString(as_string(left) \o as_string(right))

apply_unary_op(op, val) ==
    IF val = Panic THEN Panic
    ELSE CASE op = "Not" -> VBool(~as_bool(val))
           [] op = "Neg" -> Overflowing(-as_int(val))
           [] op = "Typeof" -> VString(type_name(val))
           [] op = "Len" -> VInt(value_len(val))

call_builtin(name, args) ==
    IF \E k \in 1 .. Len(args) : args[k] = Panic THEN Panic
    ELSE CASE name = "len" -> IF args = <<>> THEN Null ELSE VInt(value_len(args[1]))
           [] name = "str" -> IF args = <<>> THEN Null ELSE VString(as_string(args[1]))
           [] name = "int" -> IF args = <<>> THEN Null ELSE VInt(as_int(args[1]))
           [] name = "bool" -> IF args = <<>> THEN Null ELSE VBool(as_bool(args[1]))
           [] name = "list" -> VList(args)
           [] name \notin {"abs", "min", "max", "floor", "ceil", "round", "sqrt", "float",
                           "type", "is_null", "is_list", "is_object", "range", "keys",
                           "values", "json_encode"} -> Null

call_method(obj, method, args) ==
    IF obj = Panic \/ \E k \in 1 .. Len(args) : args[k] = Panic THEN Panic
    ELSE CASE obj.t = "string" /\ method = "len" -> VInt(StrLen(obj.s))
           [] obj.t = "string" /\ method = "chars" -> VInt(Len(obj.s))
           [] obj.t = "list" /\ method = "len" -> VInt(Len(obj.l))
           [] obj.t = "list" /\ method = "first" ->
                IF obj.l = <<>> THEN Null ELSE obj.l[1]
           [] obj.t = "list" /\ method = "last" ->
                IF obj.l = <<>> THEN Null ELSE obj.l[Len(obj.l)]
           [] obj.t = "list" /\ method = "get" ->
                value_get(obj, VInt(IF args = <<>> THEN 0 ELSE as_int(args[1])))
           [] method = "to_string" -> VString(as_string(obj))
           [] method \notin {"upper", "lower", "trim", "trim_start", "trim_end", "len",
                             "chars", "split", "join", "replace", "starts_with",
                             "ends_with", "contains", "slice", "repeat", "pad_start",
                             "pad_end", "first", "last", "get", "index_of", "reverse",
                             "sort", "unique", "flatten", "sum", "min", "max", "avg",
                             "keys", "values", "entries", "has", "abs", "to_string"} -> Null
           [] obj.t \in {"null", "bool"} /\ method # "to_string" -> Null
           [] obj.t = "int" /\ method \notin {"abs", "to_string"} -> Null

RECURSIVE evaluate(_, _)
RECURSIVE store_get(_, _)
RECURSIVE evaluate_all(_, _)
\* get that looks in the persistent values before the locals.
store_get_values_first(st, key) ==
    IF Has(st.values, key) THEN Some(st.values[key])
    ELSE IF Has(st.locals, key) THEN Some(st.locals[key])
    ELSE IF Has(st.computed, key) THEN Some(evaluate(st.computed[key], st))
    ELSE None

store_get(st, key) ==
    IF Has(st.locals, key) THEN Some(st.locals[key])
    ELSE IF Has(st.values, key) THEN Some(st.values[key])
    ELSE IF Has(st.computed, key) THEN Some(evaluate(st.computed[key], st))
    ELSE None

evaluate_all(exprs, st) ==
    IF exprs = <<>> THEN <<>>
    ELSE <<evaluate(Head(exprs), st)>> \o evaluate_all(Tail(exprs), st)

evaluate(expr, st) ==
    CASE expr.e = "Literal" -> expr.v
      [] expr.e = "Variable" ->
            LET got == store_get(st, expr.name) IN IF IsSome(got) THEN Unwrap(got) ELSE Null
      [] expr.e = "Binary" ->
            apply_binary_op(evaluate(expr.left, st), expr.op, evaluate(expr.right, st))
      [] expr.e = "Unary" -> apply_unary_op(expr.op, evaluate(expr.operand, st))
      [] expr.e = "IndexAccess" ->
            LET obj == evaluate(expr.object, st)
                idx == evaluate(expr.index, st)
            IN  IF obj = Panic \/ idx = Panic THEN Panic ELSE value_get(obj, idx)
      [] expr.e = "Conditional" ->
            LET cond == evaluate(expr.condition, st)
            IN  IF cond = Panic THEN Panic
                ELSE IF as_bool(cond) THEN evaluate(expr.then_expr, st)
                ELSE evaluate(expr.else_expr, st)
      [] expr.e = "Call" -> call_builtin(expr.function, evaluate_all(expr.args, st))
      [] expr.e = "MethodCall" ->
            call_method(evaluate(expr.object, st), expr.method, evaluate_all(expr.args, st))
      [] expr.e = "ListLiteral" ->
            LET items == evaluate_all(expr.items, st)
            IN  IF \E k \in 1 .. Len(items) : items[k] = Panic THEN Panic ELSE VList(items)
      [] expr.e = "NullCoalesce" ->
            LET val == evaluate(expr.value, st)
            IN  IF val = Null THEN evaluate(expr.default, st) ELSE val

-----------------------------------------------------------------------------
(* StateStore: state.rs.  A store is the record [values, computed, locals, dirty]. *)

store_new == [values |-> EmptyMap, computed |-> EmptyMap, locals |-> EmptyMap, dirty |-> TRUE]

store_init(st, fields) ==
    [st EXCEPT !.values = [k \in (DOMAIN st.values) \cup (DOMAIN fields) |->
                              IF Has(fields, k) THEN fields[k] ELSE st.values[k]],
               !.dirty = TRUE]

store_set_computed(st, computed) == [st EXCEPT !.computed = computed]

store_set_always_dirty(st, key, value) ==
    [st EXCEPT !.values = Put(st.values, key, value), !.dirty = TRUE]

store_set(st, key, value) ==
    LET changed == ~(Has(st.values, key) /\ ValueEq(st.values[key], value))
    IN  [st EXCEPT !.values = Put(st.values, key, value),
                   !.dirty = IF changed THEN TRUE ELSE st.dirty]

store_set_local(st, key, value) == [st EXCEPT !.locals = Put(st.locals, key, value)]

\* clear_locals that also clears the dirty flag.
store_clear_locals_clean(st) == [st EXCEPT !.locals = EmptyMap, !.dirty = FALSE]

store_clear_locals(st) == [st EXCEPT !.locals = EmptyMap]

store_is_dirty(st) == st.dirty

store_mark_clean(st) == [st EXCEPT !.dirty = FALSE]

store_invalidate(st) == [st EXCEPT !.dirty = TRUE]

\* get_list_mut: Some(list) and the dirty flag raised when values[key] is a list.
store_has_list(st, key) == Has(st.values, key) /\ st.values[key].t = "list"

\* get_list_mut that hands out the list without raising the dirty flag.
store_get_list_mut_quiet(st, key) == st

store_get_list_mut(st, key) == IF store_has_list(st, key) THEN [st EXCEPT !.dirty = TRUE] ELSE st

-----------------------------------------------------------------------------
(* Statement: ast.rs.  A statement is a record tagged by s. *)

Assign(name, value) == [s |-> "Assign", target |-> "Variable", name |-> name, value |-> value]

AssignIndex(object, index, value) ==
    [s |-> "Assign", target |-> "Index", object |-> object, index |-> index, value |-> value]

If(c, a, b) == [s |-> "If", condition |-> c, then_block |-> a, else_block |-> b]

ForEach(item, index, collection, body) ==
    [s |-> "ForEach", item |-> item, index |-> index, collection |-> collection, body |-> body]

While(c, body) == [s |-> "While", condition |-> c, body |-> body]

Return(value) == [s |-> "Return", value |-> value]

Break == [s |-> "Break"]

Continue == [s |-> "Continue"]

CallAction(action, args) == [s |-> "Call", action |-> action, args |-> args]

Log(x) == [s |-> "Log", value |-> x]

Navigate(x) == [s |-> "Navigate", value |-> x]

Fetch(url, on_success, on_error) ==
    [s |-> "Fetch", url |-> url, on_success |-> on_success, on_error |-> on_error]

Delay(ms, then) == [s |-> "Delay", ms |-> ms, then |-> then]

ListPush(target, value) == [s |-> "ListPush", target |-> target, value |-> value]

ListPop(target) == [s |-> "ListPop", target |-> target]

ListInsert(target, index, value) ==
    [s |-> "ListInsert", target |-> target, index |-> index, value |-> value]

ListRemove(target, index) == [s |-> "ListRemove", target |-> target, index |-> index]

ListClear(target) == [s |-> "ListClear", target |-> target]

ActionBlock(params, statements) == [params |-> params, statements |-> statements]

-----------------------------------------------------------------------------
(* The statement interpreter: runtime.rs.  It runs on the record               *)
(* rt = [values, computed, locals, dirty, current_route, out] and returns     *)
(* [rt, flow]: flow is the ControlFlow signal "Continue", "Break" or "Return", *)
(* or "Panic" when an evaluation panicked (the process is gone), or "Diverge" *)
(* when the step budget MaxSteps ran out (the handler has not returned).      *)

MaxSteps == 6

Flow(rt, flow) == [rt |-> rt, flow |-> flow]

Abort(flow) == flow \in {"Panic", "Diverge"}

\* `n as usize` of a negative i64 is beyond every length: -1 stands for it.
AsUsize(n) == IF n < 0 THEN -1 ELSE n

InsertAt(list, idx, val) == SubSeq(list, 1, idx) \o <<val>> \o SubSeq(list, idx + 1, Len(list))

RemoveAt(list, idx) == SubSeq(list, 1, idx) \o SubSeq(list, idx + 2, Len(list))

SetValue(rt, key, value) == [rt EXCEPT !.values = Put(rt.values, key, value)]

\* for (i, param) in params: set_local(param, args.get(i) or Null)
ParamValue(params, args, name) ==
    LET last == CHOOSE i \in 1 .. Len(params) :
                    params[i] = name /\ \A j \in (i + 1) .. Len(params) : params[j] # name
    IN  IF last <= Len(args) THEN args[last] ELSE Null

bind_params(rt, params, args) ==
    LET names == {params[i] : i \in 1 .. Len(params)}
    IN  [rt EXCEPT !.locals = [k \in (DOMAIN rt.locals) \cup names |->
                                  IF k \in names THEN ParamValue(params, args, k)
                                  ELSE rt.locals[k]]]

action_epilogue_keep_locals(rt) == rt

\* "Clear locals after action completes"
action_epilogue(rt) == store_clear_locals(rt)

\* A Fetch that also invalidates the store.
fetch_logged_dirty(rt, url_val) ==
    Flow(store_invalidate([rt EXCEPT !.out = Append(@, [k |-> "fetch", text |-> as_string(url_val)])]),
         "Continue")

\* println!("[PRISM FETCH] ..."); ControlFlow::Continue
fetch_logged(rt, url_val) ==
    Flow([rt EXCEPT !.out = Append(@, [k |-> "fetch", text |-> as_string(url_val)])], "Continue")

RECURSIVE execute_action(_, _, _, _, _)
RECURSIVE execute_statements(_, _, _, _)
RECURSIVE execute_statement(_, _, _, _)
RECURSIVE for_each(_, _, _, _, _, _)
RECURSIVE while_loop(_, _, _, _)
RECURSIVE statements_after(_, _, _, _)
RECURSIVE for_each_after(_, _, _, _, _, _)
RECURSIVE while_after(_, _, _, _)

\* The end of execute_action, given the outcome done of its statements.
action_done(done) ==
    IF Abort(done.flow) THEN done
    ELSE Flow(action_epilogue(done.rt), "Continue")

execute_action(actions, action, args, rt, fuel) ==
    action_done(execute_statements(actions, action.statements,
                                   bind_params(rt, action.params, args), fuel))

execute_statements(actions, statements, rt, fuel) ==
    IF statements = <<>> THEN Flow(rt, "Continue")
    ELSE statements_after(actions, Tail(statements),
                          execute_statement(actions, Head(statements), rt, fuel), fuel)

\* A statement sequence that goes on after a Return.
statements_after_return(actions, rest, first, fuel) ==
    IF first.flow \in {"Continue", "Return"}
    THEN execute_statements(actions, rest, first.rt, fuel)
    ELSE first

\* match self.execute_statement(stmt) { Continue => {} flow => return flow }
statements_after(actions, rest, first, fuel) ==
    IF first.flow = "Continue"
    THEN execute_statements(actions, rest, first.rt, fuel)
    ELSE first

\* set_local(item, ..) and, with an index name, set_local(index, Int(i))
loop_locals(rt, stmt, item, i) ==
    IF IsSome(stmt.index)
    THEN store_set_local(store_set_local(rt, stmt.item, item), Unwrap(stmt.index), VInt(i))
    ELSE store_set_local(rt, stmt.item, item)

for_each(actions, stmt, list, i, rt, fuel) ==
    IF i > Len(list) THEN Flow(rt, "Continue")
    ELSE for_each_after(actions, stmt, list, i,
            execute_statements(actions, stmt.body, loop_locals(rt, stmt, list[i], i - 1), fuel),
            fuel)

\* A ForEach that passes a Break on to the enclosing sequence.
for_each_after_break_passed(actions, stmt, list, i, body, fuel) ==
    CASE body.flow = "Continue" -> for_each(actions, stmt, list, i + 1, body.rt, fuel)
      [] OTHER -> body

for_each_after(actions, stmt, list, i, body, fuel) ==
    CASE body.flow = "Break" -> Flow(body.rt, "Continue")
      [] body.flow = "Continue" -> for_each(actions, stmt, list, i + 1, body.rt, fuel)
      [] OTHER -> body

while_loop(actions, stmt, rt, fuel) ==
    LET cond == evaluate(stmt.condition, rt)
    IN  IF cond = Panic THEN Flow(rt, "Panic")
        ELSE IF ~as_bool(cond) THEN Flow(rt, "Continue")
        ELSE IF fuel = 0 THEN Flow(rt, "Diverge")
        ELSE while_after(actions, stmt,
                         execute_statements(actions, stmt.body, rt, fuel - 1), fuel)

while_after(actions, stmt, body, fuel) ==
    CASE body.flow = "Break" -> Flow(body.rt, "Continue")
      [] body.flow = "Continue" -> while_loop(actions, stmt, body.rt, fuel - 1)
      [] OTHER -> body

execute_statement(actions, stmt, rt, fuel) ==
    CASE stmt.s = "Assign" ->
            LET evaluated == evaluate(stmt.value, rt)
            IN  IF evaluated = Panic THEN Flow(rt, "Panic")
                ELSE IF stmt.target = "Variable"
                THEN Flow(store_set(rt, stmt.name, evaluated), "Continue")
                ELSE LET idx == evaluate(stmt.index, rt)
                         at == AsUsize(as_int(idx))
                         got == store_get_list_mut(rt, stmt.object)
                     IN  IF idx = Panic THEN Flow(rt, "Panic")
                         ELSE IF store_has_list(rt, stmt.object) /\ at >= 0
                                   /\ at < Len(rt.values[stmt.object].l)
                         THEN Flow(SetValue(got, stmt.object,
                                     VList([rt.values[stmt.object].l EXCEPT ![at + 1] = evaluated])),
                                   "Continue")
                         ELSE Flow(got, "Continue")
      [] stmt.s = "If" ->
            LET cond == evaluate(stmt.condition, rt)
            IN  IF cond = Panic THEN Flow(rt, "Panic")
                ELSE IF as_bool(cond)
                THEN execute_statements(actions, stmt.then_block, rt, fuel)
                ELSE execute_statements(actions, stmt.else_block, rt, fuel)
      [] stmt.s = "ForEach" ->
            LET coll == evaluate(stmt.collection, rt)
            IN  IF coll = Panic THEN Flow(rt, "Panic")
                ELSE for_each(actions, stmt, as_list(coll), 1, rt, fuel)
      [] stmt.s = "While" -> while_loop(actions, stmt, rt, fuel)
      [] stmt.s = "Return" ->
            IF IsSome(stmt.value) /\ evaluate(Unwrap(stmt.value), rt) = Panic
            THEN Flow(rt, "Panic")
            ELSE Flow(rt, "Return")
      [] stmt.s = "Break" -> Flow(rt, "Break")
      [] stmt.s = "Continue" -> Flow(rt, "Continue")
      [] stmt.s = "Call" ->
            LET evaluated_args == evaluate_all(stmt.args, rt)
            IN  IF \E k \in 1 .. Len(evaluated_args) : evaluated_args[k] = Panic
                THEN Flow(rt, "Panic")
                ELSE IF ~Has(actions, stmt.action) THEN Flow(rt, "Continue")
                ELSE IF fuel = 0 THEN Flow(rt, "Diverge")
                ELSE execute_action(actions, actions[stmt.action], evaluated_args, rt, fuel - 1)
      [] stmt.s = "Log" ->
            LET value == evaluate(stmt.value, rt)
            IN  IF value = Panic THEN Flow(rt, "Panic")
                ELSE Flow([rt EXCEPT !.out = Append(@, [k |-> "log", text |-> as_string(value)])],
                          "Continue")
      [] stmt.s = "Navigate" ->
            LET route == evaluate(stmt.value, rt)
            IN  IF route = Panic THEN Flow(rt, "Panic")
                ELSE Flow(store_invalidate([rt EXCEPT !.current_route = as_string(route)]),
                          "Continue")
      [] stmt.s = "Fetch" ->
            LET url_val == evaluate(stmt.url, rt)
            IN  IF url_val = Panic THEN Flow(rt, "Panic")
                ELSE fetch_logged(rt, url_val)
      [] stmt.s = "Delay" ->
            LET ms_val == evaluate(stmt.ms, rt)
            IN  IF ms_val = Panic THEN Flow(rt, "Panic")
                ELSE execute_statements(actions, stmt.then,
                        [rt EXCEPT !.out = Append(@, [k |-> "delay", text |-> IntToString(as_int(ms_val))])],
                        fuel)
      [] stmt.s = "ListPush" ->
            LET val == evaluate(stmt.value, rt)
            IN  IF val = Panic THEN Flow(rt, "Panic")
                ELSE IF store_has_list(rt, stmt.target)
                THEN Flow(SetValue(store_get_list_mut(rt, stmt.target), stmt.target,
                                   VList(Append(rt.values[stmt.target].l, val))), "Continue")
                ELSE Flow(rt, "Continue")
      [] stmt.s = "ListPop" ->
            IF store_has_list(rt, stmt.target)
            THEN LET list == rt.values[stmt.target].l
                 IN  Flow(SetValue(store_get_list_mut(rt, stmt.target), stmt.target,
                                   VList(IF list = <<>> THEN list ELSE SubSeq(list, 1, Len(list) - 1))),
                          "Continue")
            ELSE Flow(rt, "Continue")
      [] stmt.s = "ListInsert" ->
            LET idx == evaluate(stmt.index, rt)
                val == evaluate(stmt.value, rt)
                at == AsUsize(as_int(idx))
            IN  IF idx = Panic \/ val = Panic THEN Flow(rt, "Panic")
                ELSE IF store_has_list(rt, stmt.target)
                THEN LET list == rt.values[stmt.target].l
                     IN  Flow(SetValue(store_get_list_mut(rt, stmt.target), stmt.target,
                                  VList(IF at >= 0 /\ at <= Len(list)
                                        THEN InsertAt(list, at, val) ELSE list)), "Continue")
                ELSE Flow(rt, "Continue")
      [] stmt.s = "ListRemove" ->
            LET idx == evaluate(stmt.index, rt)
                at == AsUsize(as_int(idx))
            IN  IF idx = Panic THEN Flow(rt, "Panic")
                ELSE IF store_has_list(rt, stmt.target)
                THEN LET list == rt.values[stmt.target].l
                     IN  Flow(SetValue(store_get_list_mut(rt, stmt.target), stmt.target,
                                  VList(IF at >= 0 /\ at < Len(list)
                                        THEN RemoveAt(list, at) ELSE list)), "Continue")
                ELSE Flow(rt, "Continue")
      [] stmt.s = "ListClear" ->
            IF store_has_list(rt, stmt.target)
            THEN Flow(SetValue(store_get_list_mut(rt, stmt.target), stmt.target, VList(<<>>)),
                      "Continue")
            ELSE Flow(rt, "Continue")

-----------------------------------------------------------------------------
(* ViewNode and PropValue: ast.rs.  A node is [id, kind, props, children]; id *)
(* is the node's identity in the tree, kept to tell which nodes a pass drew.  *)

Static(v) == [p |-> "Static", v |-> v]

Expr(x) == [p |-> "Expression", e |-> x]

Handler(name) == [p |-> "Handler", h |-> name]

Node(id, kind, props, children) == [id |-> id, kind |-> kind, props |-> props, children |-> children]

-----------------------------------------------------------------------------
(* The renderer: renderer.rs.  Only what decides sizes, positions and the     *)
(* interactive regions is modelled; pixels are not.  Text that needs the font *)
(* for its width (a Button label of more than two characters, a non-empty     *)
(* Link) is outside the model.                                                *)

Max(a, b) == IF a >= b THEN a ELSE b

Min(a, b) == IF a <= b THEN a ELSE b

SatSub(a, b) == Max(a - b, 0)

get_bool_prop(node, name, st, default) ==
    IF ~Has(node.props, name) THEN default
    ELSE LET pv == node.props[name]
         IN  CASE pv.p = "Static" /\ pv.v.t = "bool" -> pv.v.b
               [] pv.p = "Expression" -> as_bool(evaluate(pv.e, st))
               [] OTHER -> default

get_int_prop(node, name, st, default) ==
    IF ~Has(node.props, name) THEN default
    ELSE LET pv == node.props[name]
         IN  CASE pv.p = "Static" /\ pv.v.t = "int" -> pv.v.i
               [] pv.p = "Expression" -> as_int(evaluate(pv.e, st))
               [] OTHER -> default

get_string_prop(node, name, st, default) ==
    IF ~Has(node.props, name) THEN default
    ELSE LET pv == node.props[name]
         IN  CASE pv.p = "Static" /\ pv.v.t = "string" -> pv.v.s
               [] pv.p = "Expression" -> as_string(evaluate(pv.e, st))
               [] OTHER -> default

get_handler_prop(node, name) ==
    IF Has(node.props, name) /\ node.props[name].p = "Handler"
    THEN Some(node.props[name].h)
    ELSE None

is_visible(node, st) ==
    IF ~Has(node.props, "visible") THEN TRUE
    ELSE LET pv == node.props["visible"]
         IN  CASE pv.p = "Expression" -> as_bool(evaluate(pv.e, st))
               [] pv.p = "Static" /\ pv.v.t = "bool" -> pv.v.b
               [] OTHER -> TRUE

\* The visibility check at the head of render_node.
render_node_visible(node, st) ==
    IF Has(node.props, "visible") /\ node.props["visible"].p = "Expression"
    THEN as_bool(evaluate(node.props["visible"].e, st))
    ELSE TRUE

LayoutBox(x, y, width, height, action, input_binding, link_href) ==
    [x |-> x, y |-> y, width |-> width, height |-> height,
     action |-> action, input_binding |-> input_binding, link_href |-> link_href]

Contains(box, x, y) ==
    /\ x >= box.x
    /\ x < box.x + box.width
    /\ y >= box.y
    /\ y < box.y + box.height

hit_test_last(boxes, x, y) ==
    IF \E i \in 1 .. Len(boxes) : Contains(boxes[i], x, y)
    THEN Some(boxes[CHOOSE i \in 1 .. Len(boxes) :
                  Contains(boxes[i], x, y)
                  /\ \A j \in (i + 1) .. Len(boxes) : ~Contains(boxes[j], x, y)])
    ELSE None

\* layout_boxes.iter().find(..): the first box in registration order.
hit_test(boxes, x, y) ==
    IF \E i \in 1 .. Len(boxes) : Contains(boxes[i], x, y)
    THEN Some(boxes[CHOOSE i \in 1 .. Len(boxes) :
                  Contains(boxes[i], x, y) /\ \A j \in 1 .. (i - 1) : ~Contains(boxes[j], x, y)])
    ELSE None

CeilDiv(a, b) == (a + b - 1) \div b

RECURSIVE measure_node(_, _, _)
RECURSIVE measure_children(_, _, _)
RECURSIVE measure_padded(_, _, _, _)
RECURSIVE measure_container(_, _, _, _, _)

\* The sizes of the visible children, in order.
measure_children(children, st, width_limit) ==
    IF children = <<>> THEN <<>>
    ELSE IF ~is_visible(Head(children), st) THEN measure_children(Tail(children), st, width_limit)
    ELSE <<measure_node(Head(children), st, width_limit)>>
            \o measure_children(Tail(children), st, width_limit)

RECURSIVE SumOf(_, _)
SumOf(sizes, k) == IF sizes = <<>> THEN 0 ELSE Head(sizes)[k] + SumOf(Tail(sizes), k)

RECURSIVE MaxOf(_, _)
MaxOf(sizes, k) == IF sizes = <<>> THEN 0 ELSE Max(Head(sizes)[k], MaxOf(Tail(sizes), k))

\* The size of a Column, Box, Stack or Scroll from the sizes of its visible children.
column_size(sizes, gap, padding) ==
    <<MaxOf(sizes, 1) + padding * 2,
      padding * 2 + SumOf(sizes, 2) + (IF Len(sizes) > 0 THEN gap * (Len(sizes) - 1) ELSE 0)>>

\* The size of a Row from the sizes of its visible children.
row_size(sizes, gap, padding) ==
    <<padding * 2 + SumOf(sizes, 1) + (IF Len(sizes) > 0 THEN gap * (Len(sizes) - 1) ELSE 0),
      MaxOf(sizes, 2) + padding * 2>>

\* The size of a Grid from the sizes of its visible children.
grid_size(sizes, cols, gap, padding, width_limit) ==
    IF sizes = <<>> THEN <<0, 0>>
    ELSE <<Min(MaxOf(sizes, 1) * cols + gap * SatSub(cols, 1) + padding * 2, width_limit),
           MaxOf(sizes, 2) * CeilDiv(Len(sizes), cols) + gap * SatSub(CeilDiv(Len(sizes), cols), 1)
               + padding * 2>>

\* The size of a control-flow node from the sizes of its visible children.
flow_size(sizes) ==
    <<MaxOf(sizes, 1), SumOf(sizes, 2) + (IF Len(sizes) > 1 THEN (Len(sizes) - 1) * 4 ELSE 0)>>

\* The children of a padded container, measured within the padding.
measure_padded(node, st, width_limit, padding) ==
    measure_children(node.children, st, SatSub(width_limit, padding * 2))

measure_container(node, st, width_limit, gap, padding) ==
    CASE node.kind \in {"Column", "Box", "Stack", "Scroll"} ->
            column_size(measure_padded(node, st, width_limit, padding), gap, padding)
      [] node.kind = "Row" ->
            row_size(measure_padded(node, st, width_limit, padding), gap, padding)
      [] node.kind = "Grid" ->
            grid_size(measure_padded(node, st, width_limit, padding),
                      Max(get_int_prop(node, "columns", st, 2), 1), gap, padding, width_limit)

measure_node(node, st, width_limit) ==
    CASE node.kind \in {"Column", "Box", "Stack", "Scroll", "Row", "Grid"} ->
            measure_container(node, st, width_limit, get_int_prop(node, "gap", st, 0),
                              get_int_prop(node, "padding", st, 0))
      [] node.kind = "Divider" -> <<width_limit, 1>>
      [] node.kind = "Spacer" -> <<0, 0>>
      [] node.kind = "Link" /\ get_string_prop(node, "content", st, <<"L", "i", "n", "k">>) = <<>> ->
            <<0, get_int_prop(node, "size", st, 16) + 6>>
      [] node.kind = "Button"
           /\ Len(get_string_prop(node, "content", st, <<"B", "u", "t", "t", "o", "n">>)) <= 2 ->
            <<36, 36>>
      [] node.kind = "Input" -> <<Min(width_limit, 280), 36>>
      [] node.kind = "TextArea" -> <<Min(width_limit, 400), get_int_prop(node, "height", st, 100)>>
      [] node.kind \in {"Checkbox", "Toggle", "Radio"} ->
            <<Min(StrLen(get_string_prop(node, "label", st, <<>>)) * 8 + 32, width_limit), 24>>
      [] node.kind \in {"Select", "Slider"} -> <<Min(width_limit, 240), 32>>
      [] node.kind \in {"Image", "Icon", "Avatar"} -> <<64, 64>>
      [] node.kind \in {"Video", "Audio"} -> <<width_limit, 120>>
      [] node.kind \in {"Table", "List", "Card"} -> <<width_limit, 120>>
      [] node.kind = "Badge" -> <<48, 24>>
      [] node.kind = "Progress" -> <<width_limit, 16>>
      [] node.kind \in {"Modal", "Toast", "Tooltip", "Popover"} -> <<width_limit, 40>>
      [] node.kind \in {"Each", "If", "Show", "Switch", "Slot"} ->
            flow_size(measure_children(node.children, st, width_limit))
      [] node.kind = "Center" -> <<width_limit, 0>>
      [] node.kind = "Component" -> <<width_limit, 0>>

Ctx(x, y, width, height) == [x |-> x, y |-> y, width |-> width, height |-> height]

\* What a paint pass accumulates: the regions pushed and the nodes drawn.
Painted(boxes, drawn) == [boxes |-> boxes, drawn |-> drawn]

Register(acc, box) == [acc EXCEPT !.boxes = Append(@, box)]

Centered(outer, inner) == TruncDiv(outer - inner, 2)

render_button(node, st, ctx, acc) ==
    LET content == get_string_prop(node, "content", st, <<"B", "u", "t", "t", "o", "n">>)
        btn_width == CASE Len(content) <= 2 -> 36
        btn_y == ctx.y + Centered(ctx.height, 36)
        on_click == get_handler_prop(node, "on_click")
    IN  IF IsSome(on_click)
        THEN Register(acc, LayoutBox(ctx.x, btn_y, btn_width, 36, on_click, None, None))
        ELSE acc

render_input(node, st, ctx, acc) ==
    LET binding == get_handler_prop(node, "bind")
        input_width == Min(SatSub(ctx.width, 20), 280)
        input_y == ctx.y + Centered(ctx.height, 36)
    IN  Register(acc, LayoutBox(ctx.x, input_y, input_width, 36, None, binding, None))

render_link(node, st, ctx, acc) ==
    LET content == get_string_prop(node, "content", st, <<"L", "i", "n", "k">>)
        href == get_string_prop(node, "href", st, <<>>)
        max_w == CASE content = <<>> -> 0
        link_height == CASE content = <<>> -> 16
    IN  IF href # <<>>
        THEN Register(acc, LayoutBox(ctx.x, ctx.y, Max(max_w, 20), link_height, None, None, Some(href)))
        ELSE acc

render_textarea(node, st, ctx, acc) ==
    LET binding == get_handler_prop(node, "bind")
        area_height == get_int_prop(node, "height", st, 100)
        area_width == Min(ctx.width, 400)
    IN  Register(acc, LayoutBox(ctx.x, ctx.y, area_width, area_height, None, binding, None))

render_checkbox(node, st, ctx, acc) ==
    LET label == get_string_prop(node, "label", st, <<>>)
        box_y == ctx.y + Centered(ctx.height, 20)
        on_change == get_handler_prop(node, "on_change")
    IN  IF IsSome(on_change)
        THEN Register(acc, LayoutBox(ctx.x, box_y, 20 + 8 + StrLen(label) * 8, 20, on_change, None, None))
        ELSE acc

render_toggle(node, st, ctx, acc) ==
    LET track_y == ctx.y + Centered(ctx.height, 24)
        on_change == get_handler_prop(node, "on_change")
    IN  IF IsSome(on_change)
        THEN Register(acc, LayoutBox(ctx.x, track_y, 44, 24, on_change, None, None))
        ELSE acc

RECURSIVE render_node(_, _, _, _, _)
RECURSIVE render_children(_, _, _, _, _)
RECURSIVE render_column(_, _, _, _, _, _, _)
RECURSIVE render_column_child(_, _, _, _, _, _, _, _)
RECURSIVE render_row_from(_, _, _, _, _, _, _, _)
RECURSIVE render_row_child(_, _, _, _, _, _, _, _, _)
RECURSIVE render_kind(_, _, _, _, _, _, _)
RECURSIVE render_grid_from(_, _, _, _, _, _, _, _, _, _)
RECURSIVE render_center(_, _, _, _, _)
RECURSIVE render_table(_, _, _, _, _, _)

\* for child in &node.children { self.render_node(fb, child, state, ctx) }
render_children(children, st, ctx, fb, acc) ==
    IF children = <<>> THEN acc
    ELSE render_children(Tail(children), st, ctx, fb,
                         render_node(Head(children), st, ctx, fb, acc))

render_column(children, st, ctx, gap, y, fb, acc) ==
    IF children = <<>> THEN acc
    ELSE IF ~is_visible(Head(children), st)
    THEN render_column(Tail(children), st, ctx, gap, y, fb, acc)
    ELSE render_column_child(children, st, ctx, gap, y,
                             measure_node(Head(children), st, ctx.width)[2], fb, acc)

\* A loop body that stacks the children without the gap.
render_column_child_no_gap(children, st, ctx, gap, y, child_h, fb, acc) ==
    render_column(Tail(children), st, ctx, gap, y + child_h, fb,
                  render_node(Head(children), st, Ctx(ctx.x, y, ctx.width, child_h), fb, acc))

\* The body of render_column's loop for a visible child of measured height child_h.
render_column_child(children, st, ctx, gap, y, child_h, fb, acc) ==
    render_column(Tail(children), st, ctx, gap, y + child_h + gap, fb,
                  render_node(Head(children), st, Ctx(ctx.x, y, ctx.width, child_h), fb, acc))

VisibleChildren(children, st) == SelectSeq(children, LAMBDA c : is_visible(c, st))

\* The second loop of render_row, over the pre-measured visible children.
render_row_from(children, st, ctx, gap, max_h, x, fb, acc) ==
    IF children = <<>> THEN acc
    ELSE render_row_child(children, st, ctx, gap, max_h, x,
                          measure_node(Head(children), st, ctx.width), fb, acc)

\* The body of render_row's second loop for a child of measured size.
render_row_child(children, st, ctx, gap, max_h, x, size, fb, acc) ==
    render_row_from(Tail(children), st, ctx, gap, max_h, x + size[1] + gap, fb,
                    render_node(Head(children), st,
                                Ctx(x, ctx.y + Centered(max_h, size[2]), size[1], size[2]), fb, acc))

\* A total that counts a gap after every child, the last one included.
row_total_w_gap_each(sizes, gap) == SumOf(sizes, 1) + gap * Len(sizes)

\* total_w of render_row: the widths of the measured children and the gaps between them.
row_total_w(sizes, gap) == SumOf(sizes, 1) + (IF sizes # <<>> THEN gap * (Len(sizes) - 1) ELSE 0)

render_row_measured(node, st, ctx, gap, sizes, fb, acc) ==
    render_row_from(VisibleChildren(node.children, st), st, ctx, gap, MaxOf(sizes, 2),
                    ctx.x + Max(TruncDiv(ctx.width - row_total_w(sizes, gap), 2), 0), fb, acc)

render_row(node, st, ctx, gap, fb, acc) ==
    render_row_measured(node, st, ctx, gap, measure_children(node.children, st, ctx.width), fb, acc)

render_grid_from(children, st, ctx, gap, cols, cell_width, cell_height, i, fb, acc) ==
    IF children = <<>> THEN acc
    ELSE LET col == i % cols
             row == i \div cols
             child_ctx == Ctx(ctx.x + col * (cell_width + gap), ctx.y + row * (cell_height + gap),
                              cell_width, cell_height)
         IN  render_grid_from(Tail(children), st, ctx, gap, cols, cell_width, cell_height, i + 1, fb,
                              render_node(Head(children), st, child_ctx, fb, acc))

\* The u32 subtractions of render_grid are modelled where they do not underflow.
render_grid(node, st, ctx, gap, fb, acc) ==
    LET cols == get_int_prop(node, "columns", st, 2)
        visible == VisibleChildren(node.children, st)
        rows == CeilDiv(Len(visible), cols)
    IN  IF visible = <<>> \/ cols = 0 THEN acc
        ELSE CASE cols > 0 /\ ctx.width >= gap * (cols - 1) /\ ctx.height >= gap * (rows - 1) ->
                render_grid_from(visible, st, ctx, gap, cols,
                                 (ctx.width - gap * (cols - 1)) \div cols,
                                 (ctx.height - gap * (rows - 1)) \div rows, 0, fb, acc)

\* The context render_center gives a child of measured size.
centered_ctx(ctx, size) ==
    Ctx(ctx.x + Max(TruncDiv(ctx.width - size[1], 2), 0), ctx.y, size[1], size[2])

render_center(children, st, ctx, fb, acc) ==
    IF children = <<>> THEN acc
    ELSE render_center(Tail(children), st, ctx, fb,
                       render_node(Head(children), st,
                                   centered_ctx(ctx, measure_node(Head(children), st, ctx.width)),
                                   fb, acc))

render_table(children, st, ctx, y, fb, acc) ==
    IF children = <<>> THEN acc
    ELSE render_table(Tail(children), st, ctx, y + 36, fb,
                      render_node(Head(children), st, Ctx(ctx.x, y, ctx.width, 36), fb, acc))

\* The u32 subtractions of render_modal are modelled for a buffer of 40 or more each way.
render_modal(node, st, fb, acc) ==
    IF ~get_bool_prop(node, "open", st, FALSE) THEN acc
    ELSE CASE fb.width >= 40 /\ fb.height >= 40 ->
            LET modal_width == Min(400, fb.width - 40)
                modal_height == Min(300, fb.height - 40)
                modal_x == TruncDiv(fb.width - modal_width, 2)
                modal_y == TruncDiv(fb.height - modal_height, 2)
            IN  CASE modal_width >= 40 /\ modal_height >= 40 ->
                    render_children(node.children, st,
                        Ctx(modal_x + 20, modal_y + 20, modal_width - 40, modal_height - 40), fb, acc)

\* "Inner context after padding"
inner_ctx(ctx, padding) ==
    Ctx(ctx.x + padding, ctx.y + padding,
        SatSub(ctx.width, padding * 2), SatSub(ctx.height, padding * 2))

\* The node is drawn: it joins the nodes this pass drew.
Drawn(acc, node) == [acc EXCEPT !.drawn = Append(@, node.id)]

\* match node.kind { .. } of render_node, with the inner context and the gap.
render_kind(node, st, ctx, inner, gap, fb, acc) ==
    CASE node.kind \in {"Column", "Stack"} ->
            render_column(node.children, st, inner, gap, inner.y, fb, acc)
      [] node.kind = "Row" -> render_row(node, st, inner, gap, fb, acc)
      [] node.kind = "Grid" -> render_grid(node, st, inner, gap, fb, acc)
      [] node.kind = "Center" -> render_center(node.children, st, inner, fb, acc)
      [] node.kind \in {"Scroll", "Box", "Toast", "Tooltip", "Popover", "Show", "Slot",
                        "Component"} ->
            render_children(node.children, st, inner, fb, acc)
      [] node.kind \in {"Spacer", "Divider", "Radio", "Select", "Slider", "Image", "Icon",
                        "Video", "Audio", "Badge", "Progress", "Avatar"} -> acc
      [] node.kind = "Link" -> render_link(node, st, inner, acc)
      [] node.kind = "Button" -> render_button(node, st, ctx, acc)
      [] node.kind = "Input" -> render_input(node, st, ctx, acc)
      [] node.kind = "TextArea" -> render_textarea(node, st, ctx, acc)
      [] node.kind = "Checkbox" -> render_checkbox(node, st, ctx, acc)
      [] node.kind = "Toggle" -> render_toggle(node, st, ctx, acc)
      [] node.kind = "Card" ->
            render_children(node.children, st,
                Ctx(inner.x + 16, inner.y + 16, SatSub(inner.width, 32), SatSub(inner.height, 32)),
                fb, acc)
      [] node.kind = "Table" -> render_table(node.children, st, inner, inner.y, fb, acc)
      [] node.kind \in {"List", "Each"} ->
            render_column(node.children, st, inner, gap, inner.y, fb, acc)
      [] node.kind = "Modal" -> render_modal(node, st, fb, acc)
      [] node.kind = "If" -> render_children(node.children, st, inner, fb, acc)
      [] node.kind = "Switch" ->
            IF node.children = <<>> THEN acc
            ELSE render_node(Head(node.children), st, inner, fb, acc)

render_node(node, st, ctx, fb, acc0) ==
    IF ~render_node_visible(node, st) THEN acc0
    ELSE render_kind(node, st, ctx, inner_ctx(ctx, get_int_prop(node, "padding", st, 0)),
                     get_int_prop(node, "gap", st, 0), fb, Drawn(acc0, node))

renderer_render_keep(boxes, view, st, fb, scroll_y) ==
    render_node(view, st, Ctx(0, -scroll_y, fb.width, fb.height), fb, Painted(boxes, <<>>))

\* Renderer::render: layout_boxes.clear(), then the paint pass from the root.
renderer_render(boxes, view, st, fb, scroll_y) ==
    render_node(view, st, Ctx(0, -scroll_y, fb.width, fb.height), fb, Painted(<<>>, <<>>))

total_content_height(view, st, width) == measure_node(view, st, width)[2]

\* The store of the running application, read from the variables.
Store == [values |-> values, computed |-> app.computed, locals |-> locals, dirty |-> dirty]

-----------------------------------------------------------------------------
(* Runtime: runtime.rs.  The handlers run on the record                       *)
(* [rt, focused_input] and return it with the handler's result.               *)

DEFAULT_WIDTH == 1024

DEFAULT_HEIGHT == 768

CHROME_HEIGHT == 50

\* The content frame buffer render_browser hands to Runtime::render.
ContentFb == [width |-> DEFAULT_WIDTH, height |-> Max(SatSub(DEFAULT_HEIGHT, CHROME_HEIGHT), 1)]

Rt == [values |-> values, computed |-> app.computed, locals |-> locals, dirty |-> dirty,
       current_route |-> current_route, out |-> <<>>]

Handled(rt, focus, ret, flow) == [rt |-> rt, focused_input |-> focus, ret |-> ret, flow |-> flow]

runtime_new(a) ==
    store_set_computed(store_init(store_new, a.state), a.computed)

\* self.execute_action(&action, &[]); return true
action_handled(done, focus) == Handled(done.rt, focus, TRUE, done.flow)

\* handle_click returning true for every click that hits a region.
handle_click_any_region(a, boxes, rt, focus, x, y) ==
    LET hit == hit_test(boxes, x, y)
    IN  IF IsSome(hit)
        THEN LET layout_box == Unwrap(hit)
             IN  IF IsSome(layout_box.action) /\ Has(a.actions, Unwrap(layout_box.action))
                 THEN action_handled(execute_action(a.actions, a.actions[Unwrap(layout_box.action)],
                                                    <<>>, rt, MaxSteps), focus)
                 ELSE IF IsSome(layout_box.input_binding)
                 THEN Handled(store_invalidate(rt), layout_box.input_binding, TRUE, "Continue")
                 ELSE Handled(rt, focus, TRUE, "Continue")
        ELSE Handled(rt, None, FALSE, "Continue")

handle_click(a, boxes, rt, focus, x, y) ==
    LET hit == hit_test(boxes, x, y)
    IN  IF IsSome(hit)
        THEN LET layout_box == Unwrap(hit)
             IN  IF IsSome(layout_box.action) /\ Has(a.actions, Unwrap(layout_box.action))
                 THEN action_handled(execute_action(a.actions, a.actions[Unwrap(layout_box.action)],
                                                    <<>>, rt, MaxSteps), focus)
                 ELSE IF IsSome(layout_box.input_binding)
                 THEN Handled(store_invalidate(rt), layout_box.input_binding, TRUE, "Continue")
                 ELSE Handled(rt, focus, FALSE, "Continue")
        ELSE Handled(rt, None, FALSE, "Continue")

CurrentText(rt, binding) ==
    LET got == store_get(rt, binding) IN IF IsSome(got) THEN as_string(Unwrap(got)) ELSE <<>>

\* handle_key writing the new string into the values without raising the dirty flag.
handle_key_silent(rt, focus, key) ==
    IF IsSome(focus)
    THEN Handled([rt EXCEPT !.values = Put(rt.values, Unwrap(focus),
                                           VString(CurrentText(rt, Unwrap(focus)) \o <<key>>))],
                 focus, TRUE, "Continue")
    ELSE Handled(rt, focus, FALSE, "Continue")

handle_key(rt, focus, key) ==
    IF IsSome(focus)
    THEN Handled(store_set(rt, Unwrap(focus), VString(CurrentText(rt, Unwrap(focus)) \o <<key>>)),
                 focus, TRUE, "Continue")
    ELSE Handled(rt, focus, FALSE, "Continue")

\* current.chars().take(current.len() - 1): len() counts bytes.
handle_backspace(rt, focus) ==
    IF IsSome(focus) /\ CurrentText(rt, Unwrap(focus)) # <<>>
    THEN LET current == CurrentText(rt, Unwrap(focus))
             new_value == SubSeq(current, 1, Min(StrLen(current) - 1, Len(current)))
         IN  Handled(store_set(rt, Unwrap(focus), VString(new_value)), focus, TRUE, "Continue")
    ELSE Handled(rt, focus, FALSE, "Continue")

runtime_invalidate(rt) == store_invalidate(rt)

\* Runtime::render: the paint pass, then mark_clean.
runtime_render(a, boxes, rt, fb, scroll_y) ==
    [painted |-> renderer_render(boxes, a.view, rt, fb, scroll_y), rt |-> store_mark_clean(rt)]

-----------------------------------------------------------------------------
(* The application definitions the specifications load. *)

Str(chars) == VString(chars)

Props(content, handler) == [content |-> Static(Str(<<content>>)), on_click |-> Handler(handler)]

App(name, state, actions, view) ==
    [name |-> name, state |-> state, computed |-> EmptyMap, actions |-> actions, view |-> view]

NoApp == App("none", EmptyMap, EmptyMap, Node(0, "Column", EmptyMap, <<>>))

\* A form: a bound and an unbound Input, an unbound TextArea, buttons (one naming an action that is
\* not defined, two on top of each other in a Box, one shown by the state
\* variable shown), children with visible: false, and a Link.
FormApp ==
    App("form",
        [name |-> Str(<<>>), shown |-> VBool(TRUE), count |-> VInt(0)],
        [inc |-> ActionBlock(<<>>, <<Assign("count",
                    Binary(Binary(Variable("count"), "Add", Literal(VInt(1))), "Mod", Literal(VInt(3))))>>),
         hide |-> ActionBlock(<<>>, <<Assign("shown", Unary("Not", Variable("shown")))>>)],
        Node(0, "Column", EmptyMap, <<
            Node(1, "Input", [bind |-> Handler("name")], <<>>),
            Node(2, "Input", EmptyMap, <<>>),
            Node(3, "Button", Props("+", "inc"), <<>>),
            Node(4, "Button", Props("?", "missing"), <<>>),
            Node(5, "Box", EmptyMap, <<
                Node(6, "Button", Props("h", "hide"), <<>>),
                Node(7, "Button", Props("i", "inc"), <<>>) >>),
            Node(8, "Button", [content |-> Static(Str(<<"x">>)), on_click |-> Handler("inc"),
                               visible |-> Expr(Variable("shown"))], <<>>),
            Node(9, "Link", [content |-> Static(Str(<<>>)), href |-> Static(Str(<<"/", "n">>))], <<>>),
            Node(10, "TextArea", EmptyMap, <<>>) >>))

\* Actions that call each other: outer(x) calls an action that binds x as its
\* parameter (inner) or as its loop variable (inner_loop) and then reads x;
\* pair(a, b) is invoked with no argument, with one and with three; ends_return
\* and ends_break end their body by Return and by a Break outside any loop.
CallActions ==
    [main |-> ActionBlock(<<>>, <<CallAction("outer", <<Literal(VInt(1))>>)>>),
     outer |-> ActionBlock(<<"x">>, <<Assign("before", Variable("x")),
                                      CallAction("inner", <<Literal(VInt(7))>>),
                                      Assign("seen", Variable("x"))>>),
     inner |-> ActionBlock(<<"x">>, <<Assign("bound", Variable("x"))>>),
     main_loop |-> ActionBlock(<<>>, <<CallAction("outer_loop", <<Literal(VInt(1))>>)>>),
     outer_loop |-> ActionBlock(<<"x">>, <<Assign("before", Variable("x")),
                                           CallAction("inner_loop", <<>>),
                                           Assign("seen", Variable("x"))>>),
     inner_loop |-> ActionBlock(<<>>, <<ForEach("x", None,
                                            ListLiteral(<<Literal(VInt(5)), Literal(VInt(7))>>),
                                            <<Assign("bound", Variable("x"))>>)>>),
     pair |-> ActionBlock(<<"a", "b">>, <<Assign("pa", Variable("a")), Assign("pb", Variable("b"))>>),
     call_pair |-> ActionBlock(<<>>, <<CallAction("pair", <<Literal(VInt(1))>>)>>),
     call_pair3 |-> ActionBlock(<<>>, <<CallAction("pair", <<Literal(VInt(1)), Literal(VInt(2)),
                                                             Literal(VInt(3))>>)>>),
     ends_return |-> ActionBlock(<<"x">>, <<Assign("pa", Variable("x")), Return(None),
                                            Assign("pb", Literal(VInt(1)))>>),
     ends_break |-> ActionBlock(<<"x">>, <<Assign("pa", Variable("x")), Break,
                                           Assign("pb", Literal(VInt(1)))>>),
     set_x |-> ActionBlock(<<>>, <<Assign("x", Literal(VInt(3)))>>),
     reset |-> ActionBlock(<<>>, <<Assign("before", Literal(Null)), Assign("bound", Literal(Null)),
                                   Assign("seen", Literal(Null)), Assign("pa", Literal(VInt(0))),
                                   Assign("pb", Literal(VInt(0)))>>)]

CallButtons ==
    <<"main", "main_loop", "pair", "call_pair", "call_pair3", "ends_return", "ends_break",
      "set_x", "reset">>

CallApp ==
    App("call", [pa |-> VInt(0), pb |-> VInt(0)], CallActions,
        Node(0, "Column", EmptyMap,
             [i \in 1 .. Len(CallButtons) |-> Node(i, "Button", Props("b", CallButtons[i]), <<>>)]))

Apps == {FormApp, CallApp}

-----------------------------------------------------------------------------
(* Browser: main.rs.  browser.runtime is TRUE when Browser.runtime is Some;    *)
(* the fields of that Runtime are the variables values .. layout_boxes.  One  *)
(* load meets one outcome of the file system, of the network and of the       *)
(* parser, drawn by the environment.  The address bar's text and cursor are   *)
(* not kept, and neither is current_path, which only restores that text: the  *)
(* text is an input of the Return key that submits it.                        *)

HttpScheme == <<"h", "t", "t", "p", ":", "/", "/">>

HttpsScheme == <<"h", "t", "t", "p", "s", ":", "/", "/">>

HttpLocalhost == <<"h", "t", "t", "p", ":", "/", "/", "l", "o", "c", "a", "l", "h", "o", "s", "t">>

HttpLoopback == <<"h", "t", "t", "p", ":", "/", "/", "1", "2", "7", ".", "0", ".", "0", ".", "1">>

PrismExtension == <<"p", "r", "i", "s", "m">>

\* base_dir: the directory the browser was started in.
BaseDir == <<"/", "w">>

HomePath == BaseDir \o <<"/", "e", "x", "a", "m", "p", "l", "e", "s", "/", "h", "o", "m", "e", ".", "p", "r", "i", "s", "m">>

StartsWith(s, prefix) == Len(s) >= Len(prefix) /\ SubSeq(s, 1, Len(prefix)) = prefix

StrContains(s, sub) ==
    \E i \in 1 .. Len(s) - Len(sub) + 1 : SubSeq(s, i, i + Len(sub) - 1) = sub

\* The position of the last c in s, 0 when there is none.
LastIndexOf(s, c) ==
    IF \E i \in 1 .. Len(s) : s[i] = c
    THEN CHOOSE i \in 1 .. Len(s) : s[i] = c /\ \A j \in (i + 1) .. Len(s) : s[j] # c
    ELSE 0

\* Path::extension: what follows the last dot of the file name, unless the
\* file name has no dot or only a leading one.
path_extension(path) ==
    LET file_name == SubSeq(path, LastIndexOf(path, "/") + 1, Len(path))
    IN  IF file_name = <<".", ".">> \/ LastIndexOf(file_name, ".") <= 1
        THEN None
        ELSE Some(SubSeq(file_name, LastIndexOf(file_name, ".") + 1, Len(file_name)))

\* Sandbox::validate_file_path: None is Ok(()), Some(e) is Err(e).
validate_file_path(path) ==
    IF path_extension(path) # Some(PrismExtension) THEN Some("InvalidFileType")
    ELSE IF StrContains(path, <<".", ".">>) THEN Some("PathTraversal")
    ELSE None

browser_new ==
    [runtime |-> FALSE, history |-> <<>>, history_index |-> 0,
     address_focused |-> FALSE, last_error |-> None, scroll_y |-> 0, max_scroll_y |-> 0]

\* main's frame buffer and needs_redraw before the event loop starts;
\* redraw_requested is a window.request_redraw() not yet answered.
host_new ==
    [width |-> DEFAULT_WIDTH, height |-> DEFAULT_HEIGHT, needs_redraw |-> TRUE,
     redraw_requested |-> FALSE]

\* What a navigation leaves: the Browser, whether a load was attempted, the
\* application a new Runtime is created from (None when the load failed), and
\* whether an index into the history was out of bounds (a panic).
Nav(b, navigated, loaded) ==
    [browser |-> b, navigated |-> navigated, app |-> loaded, panicked |-> FALSE]

NavPanic(b) == [browser |-> b, navigated |-> FALSE, app |-> None, panicked |-> TRUE]

\* A failure branch that records the error and leaves the Runtime in place.
load_failed_keeps_runtime(b, path_str, message) ==
    Nav([b EXCEPT !.last_error = Some(message)], FALSE, None)

\* The failure branches: self.runtime = None; self.last_error = Some(..); return
load_failed(b, path_str, message) ==
    Nav([b EXCEPT !.runtime = FALSE, !.last_error = Some(message)], TRUE, None)

\* An update that keeps the forward entries and pushes the page behind them.
update_history_keep_forward(b, path_str) ==
    IF b.history = <<>> \/ b.history[b.history_index + 1] # path_str
    THEN [b EXCEPT !.history = Append(@, path_str),
                   !.history_index = Min(b.history_index + 1, Len(b.history))]
    ELSE b

\* "Update history"
update_history(b, path_str) ==
    IF b.history = <<>> \/ b.history[b.history_index + 1] # path_str
    THEN [b EXCEPT !.history = Append(SubSeq(@, 1, Min(b.history_index + 1, Len(@))), path_str),
                   !.history_index = Min(b.history_index + 1, Len(b.history))]
    ELSE b

\* The success branch: the history, then self.runtime = Some(Runtime::new(app)).
page_loaded(b, path_str, push, a) ==
    IF push /\ b.history # <<>> /\ b.history_index >= Len(b.history)
    THEN NavPanic(b)
    ELSE Nav([(IF push THEN update_history(b, path_str) ELSE b)
                  EXCEPT !.runtime = TRUE, !.last_error = None, !.scroll_y = 0, !.max_scroll_y = 0],
             TRUE, Some(a))

navigate_url(b, url, push, world) ==
    IF StartsWith(url, HttpScheme)
       /\ ~(StartsWith(url, HttpLocalhost) \/ StartsWith(url, HttpLoopback))
    THEN load_failed(b, url, "Only https")
    ELSE IF ~world.connects THEN load_failed(b, url, "Network error")
    ELSE IF ~world.status_ok THEN load_failed(b, url, "HTTP error")
    ELSE IF ~world.body_ok THEN load_failed(b, url, "Failed to read response body")
    ELSE IF ~IsSome(world.parsed) THEN load_failed(b, url, "Parse error")
    ELSE page_loaded(b, url, push, Unwrap(world.parsed))

\* navigate_internal from "Validate path" on.
load_file(b, full_path, push, world) ==
    IF IsSome(validate_file_path(full_path)) THEN load_failed(b, full_path, "Security error")
    ELSE IF ~world.readable THEN load_failed(b, full_path, "Failed to load")
    ELSE IF ~IsSome(world.parsed) THEN load_failed(b, full_path, "Parse error")
    ELSE page_loaded(b, full_path, push, Unwrap(world.parsed))

navigate_internal(b, path, push, world) ==
    IF StartsWith(path, HttpScheme) \/ StartsWith(path, HttpsScheme)
    THEN navigate_url(b, path, push, world)
    ELSE load_file(b, IF StartsWith(path, <<"/">>) \/ StrContains(path, <<":">>)
                      THEN path
                      ELSE BaseDir \o <<"/">> \o path,
                   push, world)

navigate(b, path, world) == navigate_internal(b, path, TRUE, world)

go_back(b, world) ==
    IF b.history_index > 0
    THEN IF b.history_index > Len(b.history)
         THEN NavPanic(b)
         ELSE navigate_internal([b EXCEPT !.history_index = @ - 1], b.history[b.history_index],
                                FALSE, world)
    ELSE Nav(b, FALSE, None)

go_forward(b, world) ==
    IF b.history_index + 1 < Len(b.history)
    THEN navigate_internal([b EXCEPT !.history_index = @ + 1], b.history[b.history_index + 2],
                           FALSE, world)
    ELSE Nav(b, FALSE, None)

handle_chrome_click(b, x, width, home_exists, world) ==
    IF x >= 10 /\ x < 38 THEN go_back(b, world)
    ELSE IF x >= 45 /\ x < 73 THEN go_forward(b, world)
    ELSE IF x >= 80 /\ x < 80 + 48
    THEN IF home_exists THEN navigate(b, HomePath, world) ELSE Nav(b, FALSE, None)
    ELSE IF x >= 140 /\ x < 140 + Max(width - 140 - 20, 200)
    THEN Nav([b EXCEPT !.address_focused = TRUE], FALSE, None)
    ELSE Nav(b, FALSE, None)

\* A wheel handler that does not clamp.
wheel_scroll_unclamped(b, scroll_delta) == b.scroll_y - scroll_delta

\* MouseWheel: new_scroll, clamped below by 0 and above by max_scroll_y.
wheel_scroll(b, scroll_delta) ==
    LET new_scroll == b.scroll_y - scroll_delta
    IN  IF new_scroll < 0 THEN (IF 0 > b.max_scroll_y THEN b.max_scroll_y ELSE 0)
        ELSE IF new_scroll > b.max_scroll_y THEN b.max_scroll_y
        ELSE new_scroll

\* A poll that looks at the store's dirty flag only.
redraw_wanted_dirty_only(needs_redraw, runtime, store_dirty) == runtime /\ store_dirty

\* MainEventsCleared: if needs_redraw || runtime.map(is_dirty).unwrap_or(false)
redraw_wanted(needs_redraw, runtime, store_dirty) == needs_redraw \/ (runtime /\ store_dirty)

\* render_browser: fb.height.saturating_sub(CHROME_HEIGHT).max(1)
viewport_height(fb_height) == Max(SatSub(fb_height, CHROME_HEIGHT), 1)

\* Runtime::content_height(width): the measured height of the whole view.
content_height(a, rt, width) == total_content_height(a.view, rt, width)

\* render_browser: max_scroll_y from the content height, then scroll_y clamped.
clamp_scroll(b, full_height, viewport) ==
    LET max_scroll == Max(full_height - viewport, 0)
    IN  [b EXCEPT !.max_scroll_y = max_scroll,
                  !.scroll_y = IF @ > max_scroll THEN max_scroll ELSE IF @ < 0 THEN 0 ELSE @]

-----------------------------------------------------------------------------
(* SpecEval: the evaluator applied to a binary operation on two integer literals. *)

EvalOps == {"Add", "Div", "Mod"}

InitEval ==
    /\ values = EmptyMap
    /\ locals = EmptyMap
    /\ dirty = TRUE
    /\ focused_input = None
    /\ current_route = <<"/">>
    /\ layout_boxes = <<>>
    /\ out = <<>>
    /\ app = NoApp
    /\ overflow_checks \in BOOLEAN
    /\ browser = browser_new
    /\ host = host_new
    /\ ev = [op |-> "init"]

EvaluateBinary(a, op, b) ==
    /\ ev' = [op |-> "evaluate", binop |-> op, a |-> a, b |-> b,
              ret |-> evaluate(Binary(Literal(VInt(a)), op, Literal(VInt(b))), Store)]
    /\ UNCHANGED <<values, locals, dirty, focused_input, current_route, layout_boxes,
                   out, app, overflow_checks, browser, host>>

NextEval == \E a \in I64, b \in I64, op \in EvalOps : EvaluateBinary(a, op, b)

SpecEval == InitEval /\ [][NextEval]_vars

\* C9: for all integers a and b, a / b and a % b never fail: Int(0) when b = 0,
\* the truncated quotient (remainder) otherwise.
C9_DivModTotal ==
    (ev.op = "evaluate" /\ ev.binop \in {"Div", "Mod"}) =>
        ev.ret = (IF ev.b = 0 THEN VInt(0)
                  ELSE IF ev.binop = "Div" THEN VInt(TruncDiv(ev.a, ev.b))
                  ELSE VInt(TruncRem(ev.a, ev.b)))

\* C10: for all integers a and b, evaluate(Binary{a, Add, b}) returns Int(a + b)
\* and never fails.
C10_AddExact ==
    (ev.op = "evaluate" /\ ev.binop = "Add") => ev.ret = VInt(ev.a + ev.b)

-----------------------------------------------------------------------------
(* SpecStore: the StateStore driven through its public operations. *)

StoreKeys == {"a", "b"}

StoreValues == {Null, VInt(0), VInt(1), VString(<<>>), VList(<<VInt(1)>>)}

PreStore == [values |-> values, locals |-> locals, dirty |-> dirty]

InitStore ==
    /\ values = store_new.values
    /\ locals = store_new.locals
    /\ dirty = store_new.dirty
    /\ focused_input = None
    /\ current_route = <<"/">>
    /\ layout_boxes = <<>>
    /\ out = <<>>
    /\ app = NoApp
    /\ overflow_checks \in BOOLEAN
    /\ browser = browser_new
    /\ host = host_new
    /\ ev = [op |-> "init"]

StoreFrame == UNCHANGED <<focused_input, current_route, layout_boxes, out, app, overflow_checks, browser, host>>

StoreBecomes(st) ==
    /\ values' = st.values
    /\ locals' = st.locals
    /\ dirty' = st.dirty

StoreSet(k, v) ==
    /\ StoreBecomes(store_set(Store, k, v))
    /\ ev' = [op |-> "set", key |-> k, value |-> v, pre |-> PreStore]
    /\ StoreFrame

StoreSetLocal(k, v) ==
    /\ StoreBecomes(store_set_local(Store, k, v))
    /\ ev' = [op |-> "set_local", key |-> k, value |-> v, pre |-> PreStore]
    /\ StoreFrame

StoreClearLocals ==
    /\ StoreBecomes(store_clear_locals(Store))
    /\ ev' = [op |-> "clear_locals", pre |-> PreStore]
    /\ StoreFrame

StoreMarkClean ==
    /\ StoreBecomes(store_mark_clean(Store))
    /\ ev' = [op |-> "mark_clean", pre |-> PreStore]
    /\ StoreFrame

StoreInvalidate ==
    /\ StoreBecomes(store_invalidate(Store))
    /\ ev' = [op |-> "invalidate", pre |-> PreStore]
    /\ StoreFrame

NextStore ==
    \/ \E k \in StoreKeys, v \in StoreValues : StoreSet(k, v)
    \/ \E v \in {Null, VInt(1)} : StoreSetLocal("a", v)
    \/ StoreClearLocals
    \/ StoreMarkClean
    \/ StoreInvalidate

SpecStore == InitStore /\ [][NextStore]_vars

SetOfSameValue ==
    ev.op = "set" /\ Has(ev.pre.values, ev.key) /\ ValueEq(ev.pre.values[ev.key], ev.value)

\* C1: set(k, v) leaves the dirty flag as it was when v equals the value stored
\* under k, and sets it when k is absent or holds a different value.
C1_SetDirty ==
    (ev.op = "set") =>
        /\ values[ev.key] = ev.value
        /\ SetOfSameValue => dirty = ev.pre.dirty
        /\ ~SetOfSameValue => dirty

C1_Witness == SetOfSameValue /\ ~ev.pre.dirty /\ ~dirty

-----------------------------------------------------------------------------
(* SpecScript: the store of a page that has computed fields while an action   *)
(* runs: parameters are bound, statements execute one at a time, names are    *)
(* read and expressions evaluated, and the action ends.                       *)

MaxList == 2

\* state { xs: [1], n: 0 }   computed { c: n + 1, n: 7 }
ScriptApp ==
    [App("script", [xs |-> VList(<<VInt(1)>>), n |-> VInt(0)], EmptyMap,
         Node(0, "Column", EmptyMap, <<>>))
        EXCEPT !.computed = [c |-> Binary(Variable("n"), "Add", Literal(VInt(1))),
                             n |-> Literal(VInt(7))]]

\* The names read: xs and n are persistent, n and c are computed, zz is bound
\* nowhere until it is bound as a local.
ScriptNames == {"xs", "n", "c", "zz"}

\* The value each name is bound to when it is bound as a local.
ScriptLocal ==
    [xs |-> VList(<<>>), n |-> VInt(5), c |-> VInt(3), zz |-> VList(<<VInt(5)>>)]

ListTargets == {"xs", "n", "zz"}

ListIndexes == {0, 2, -1}

ListStatements ==
    UNION {{ListPush(t, Literal(VInt(0))), ListPop(t), ListClear(t)}
           \cup {ListInsert(t, Literal(VInt(i)), Literal(VInt(0))) : i \in ListIndexes}
           \cup {ListRemove(t, Literal(VInt(i))) : i \in ListIndexes}
           : t \in ListTargets}

ScriptStatements ==
    ListStatements
        \cup {Assign("xs", Literal(VInt(0))), Assign("xs", ListLiteral(<<>>))}

IsListStatement(stmt) ==
    stmt.s \in {"ListPush", "ListPop", "ListInsert", "ListRemove", "ListClear"}

\* The expressions that refer to something that is not there.
FailSoft ==
    {Variable("zz"),
     IndexAccess(Variable("xs"), Literal(VInt(5))),
     IndexAccess(Variable("xs"), Literal(VInt(-5))),
     IndexAccess(Variable("xs"), Literal(VString(<<"k">>))),
     IndexAccess(Variable("xs"), Literal(VBool(TRUE))),
     IndexAccess(Literal(VString(<<"a">>)), Literal(VInt(-5))),
     MethodCall(Variable("xs"), "nosuch", <<>>),
     Call("nosuch", <<Variable("n")>>)}

Wrappers == {"coalesce", "list", "str"}

\* The expression of kind w that encloses inner.
Enclose(w, inner) ==
    CASE w = "coalesce" -> NullCoalesce(inner, Literal(VInt(2)))
      [] w = "list" -> ListLiteral(<<inner, Literal(VInt(1))>>)
      [] w = "str" -> Call("str", <<inner>>)

InitScript ==
    /\ app = ScriptApp
    /\ values = runtime_new(app).values
    /\ locals = runtime_new(app).locals
    /\ dirty = runtime_new(app).dirty
    /\ focused_input = None
    /\ current_route = <<"/">>
    /\ layout_boxes = <<>>
    /\ out = <<>>
    /\ overflow_checks \in BOOLEAN
    /\ browser = browser_new
    /\ host = host_new
    /\ ev = [op |-> "init"]

PreScript ==
    [values |-> values, locals |-> locals, dirty |-> dirty, current_route |-> current_route]

ScriptFrame ==
    UNCHANGED <<focused_input, current_route, layout_boxes, out, app, overflow_checks, browser, host>>

ListWithin(st, key, bound) == store_has_list(st, key) => Len(st.values[key].l) <= bound

\* for (i, param) in action.params: self.state.set_local(param, value)
ScriptBind(k) ==
    /\ StoreBecomes(store_set_local(Store, k, ScriptLocal[k]))
    /\ ev' = [op |-> "set_local", key |-> k]
    /\ ScriptFrame

\* execute_statement has returned done.
ScriptRuns(done, stmt) ==
    /\ ~Abort(done.flow)
    /\ ListWithin(done.rt, "xs", MaxList)
    /\ values' = done.rt.values
    /\ locals' = done.rt.locals
    /\ dirty' = done.rt.dirty
    /\ current_route' = done.rt.current_route
    /\ out' = done.rt.out
    /\ ev' = [op |-> "statement", stmt |-> stmt, pre |-> PreScript]
    /\ UNCHANGED <<focused_input, layout_boxes, app, overflow_checks, browser, host>>

ScriptStatement(stmt) == ScriptRuns(execute_statement(app.actions, stmt, Rt, MaxSteps), stmt)

\* self.state.clear_locals() at the end of execute_action
ScriptEnd ==
    /\ StoreBecomes(store_clear_locals(Store))
    /\ ev' = [op |-> "clear_locals"]
    /\ ScriptFrame

\* self.state.mark_clean() at the end of a render
ScriptClean ==
    /\ StoreBecomes(store_mark_clean(Store))
    /\ ev' = [op |-> "mark_clean"]
    /\ ScriptFrame

\* get(k), and evaluate(Variable(k)) on top of it
ScriptGet(k) ==
    /\ ev' = [op |-> "get", key |-> k, got |-> store_get(Store, k),
              ret |-> evaluate(Variable(k), Store)]
    /\ UNCHANGED <<values, locals, dirty>>
    /\ ScriptFrame

\* evaluate of a fail-soft expression alone and inside an enclosing expression
ScriptEvaluate(inner, w) ==
    /\ ev' = [op |-> "eval", inner |-> inner, wrapper |-> w,
              ret |-> evaluate(inner, Store),
              outer |-> evaluate(Enclose(w, inner), Store)]
    /\ UNCHANGED <<values, locals, dirty>>
    /\ ScriptFrame

NextScript ==
    \/ \E k \in ScriptNames : ScriptBind(k)
    \/ \E stmt \in ScriptStatements : ScriptStatement(stmt)
    \/ ScriptEnd
    \/ ScriptClean
    \/ \E k \in ScriptNames : ScriptGet(k)
    \/ \E inner \in FailSoft, w \in Wrappers : ScriptEvaluate(inner, w)

SpecScript == InitScript /\ [][NextScript]_vars

ListChanged == ev.op = "statement" /\ IsListStatement(ev.stmt) /\ values # ev.pre.values

\* C16: a list-mutation statement on target t changes at most the list stored
\* under t in the persistent values: locals and every other key stay as they
\* were, nothing at all changes (dirty flag included) when t is absent from the
\* persistent values or is not a list there, even if t is bound as a local, and
\* whenever the list changes the dirty flag is set afterwards.
C16_ListMutation ==
    (ev.op = "statement" /\ IsListStatement(ev.stmt)) =>
        /\ locals = ev.pre.locals
        /\ current_route = ev.pre.current_route
        /\ DOMAIN values = DOMAIN ev.pre.values
        /\ \A k \in DOMAIN values : k # ev.stmt.target => values[k] = ev.pre.values[k]
        /\ ~store_has_list(ev.pre, ev.stmt.target) =>
                (values = ev.pre.values /\ dirty = ev.pre.dirty)
        /\ ListChanged => (dirty /\ values[ev.stmt.target].t = "list")

C16_Witness ==
    /\ ListChanged
    /\ ev.stmt.s = "ListInsert"
    /\ ~ev.pre.dirty
    /\ Has(locals, ev.stmt.target)
    /\ Len(values[ev.stmt.target].l) = Len(ev.pre.values[ev.stmt.target].l) + 1

\* A list statement on a name that is a local list but no persistent list.
C16_LocalOnlyTarget ==
    /\ ev.op = "statement" /\ IsListStatement(ev.stmt)
    /\ ev.stmt.target = "zz" /\ Has(locals, "zz") /\ ~ev.pre.dirty /\ ~dirty

BoundNowhere(k) == ~Has(locals, k) /\ ~Has(values, k) /\ ~Has(app.computed, k)

\* C17: a read resolves through locals first, then the persistent values, then
\* the computed fields: it returns the locals binding if there is one, else the
\* persistent value, else the computed expression evaluated against the
\* current state; a name bound nowhere reads as Null.
C17_ReadOrder ==
    (ev.op = "get") =>
        /\ ev.got = None <=> BoundNowhere(ev.key)
        /\ ev.ret = (IF Has(locals, ev.key) THEN locals[ev.key]
                     ELSE IF Has(values, ev.key) THEN values[ev.key]
                     ELSE IF Has(app.computed, ev.key)
                          THEN evaluate(app.computed[ev.key], Store)
                     ELSE Null)
        /\ (ev.key = "c" /\ ~Has(locals, "c")) =>
                ev.ret = VInt((IF Has(locals, "n") THEN locals["n"].i ELSE values["n"].i) + 1)

C17_Witness ==
    /\ ev.op = "get" /\ ev.key = "n"
    /\ Has(locals, "n") /\ Has(values, "n") /\ Has(app.computed, "n")
    /\ locals["n"] # values["n"]
    /\ ev.ret = locals["n"]

\* What the enclosing expression of kind w gives when its inner expression is Null.
EncloseNull(w) ==
    CASE w = "coalesce" -> VInt(2)
      [] w = "list" -> VList(<<Null, VInt(1)>>)
      [] w = "str" -> VString(<<>>)

-----------------------------------------------------------------------------
(* SpecFlow: the actions of a page run to completion, and single statements   *)
(* run with parameters bound, to follow the control flow of the interpreter.  *)
(* Every Log writes one letter: i in a loop body, l after a control           *)
(* statement in the same block, a after a loop or block, r after a Call,      *)
(* p before a Return, n inside a Delay, o and e in the handlers of a Fetch.   *)

Letter(c) == Literal(VString(<<c>>))

Num(i) == Literal(VInt(i))

OneTwo == ListLiteral(<<Num(1), Num(2)>>)

Yes == Literal(VBool(TRUE))

FetchPage == Fetch(Letter("u"), "ok", "err")

FlowActions ==
    [ok |-> ActionBlock(<<>>, <<Log(Letter("o")), Assign("n", Num(2))>>),
     err |-> ActionBlock(<<>>, <<Log(Letter("e")), Assign("n", Num(2))>>),
     bump |-> ActionBlock(<<>>,
        <<Assign("n", Binary(Binary(Variable("n"), "Add", Num(1)), "Mod", Num(3)))>>),
     after_fetch |-> ActionBlock(<<>>, <<FetchPage, Log(Letter("a"))>>),
     after_delay |-> ActionBlock(<<"ms">>,
        <<Delay(Variable("ms"), <<Log(Letter("n"))>>), Log(Letter("a"))>>),
     skip_each |-> ActionBlock(<<>>,
        <<ForEach("x", None, OneTwo, <<Log(Letter("i")), Continue, Log(Letter("l"))>>)>>),
     skip_while |-> ActionBlock(<<>>,
        <<While(Binary(Variable("n"), "Lt", Num(2)),
                <<Assign("n", Binary(Variable("n"), "Add", Num(1))), Continue, Log(Letter("l"))>>)>>),
     ret_top |-> ActionBlock(<<>>, <<Log(Letter("p")), Return(Some(Num(1))), Log(Letter("l"))>>),
     ret_if |-> ActionBlock(<<>>, <<If(Yes, <<Return(None)>>, <<>>), Log(Letter("l"))>>),
     ret_each |-> ActionBlock(<<>>,
        <<ForEach("x", None, OneTwo, <<Log(Letter("i")), Return(None), Log(Letter("l"))>>),
          Log(Letter("l"))>>),
     ret_while |-> ActionBlock(<<>>, <<While(Yes, <<Return(None)>>), Log(Letter("l"))>>),
     ret_delay |-> ActionBlock(<<>>, <<Delay(Num(0), <<Return(None)>>), Log(Letter("l"))>>),
     ret_deep |-> ActionBlock(<<>>,
        <<While(Yes,
                <<ForEach("x", None, OneTwo,
                          <<If(Yes, <<Delay(Num(0), <<Return(Some(Num(1)))>>)>>, <<>>),
                            Log(Letter("l"))>>),
                  Log(Letter("l"))>>),
          Log(Letter("l"))>>),
     call_ret |-> ActionBlock(<<>>, <<CallAction("ret_deep", <<>>), Log(Letter("r"))>>),
     brk_each |-> ActionBlock(<<>>,
        <<ForEach("x", None, OneTwo, <<Log(Letter("i")), Break, Log(Letter("l"))>>),
          Log(Letter("a"))>>),
     brk_nested |-> ActionBlock(<<>>,
        <<ForEach("x", None, OneTwo,
                  <<Log(Letter("i")), If(Yes, <<Delay(Num(0), <<Break>>)>>, <<>>), Log(Letter("l"))>>),
          Log(Letter("a"))>>),
     brk_while |-> ActionBlock(<<>>,
        <<While(Yes, <<Log(Letter("i")), Break, Log(Letter("l"))>>), Log(Letter("a"))>>),
     brk_inner |-> ActionBlock(<<>>,
        <<ForEach("x", None, OneTwo, <<While(Yes, <<Break>>), Log(Letter("i"))>>),
          Log(Letter("a"))>>),
     set_plain |-> ActionBlock(<<>>, <<Assign("y", Num(1)), Log(Variable("y"))>>),
     set_param |-> ActionBlock(<<"x">>, <<Assign("x", Num(1)), Log(Variable("x"))>>),
     set_loop |-> ActionBlock(<<>>,
        <<ForEach("x", None, ListLiteral(<<Num(5)>>),
                  <<Assign("x", Num(1)), Log(Variable("x"))>>)>>)]

FlowApp == App("flow", [n |-> VInt(0)], FlowActions, Node(0, "Column", EmptyMap, <<>>))

FlowArgs == {<<>>, <<VInt(5)>>, <<VInt(-1)>>}

DelayTimes == {0, 5, -1}

FlowStatements == {FetchPage} \cup {Delay(Num(ms), <<Log(Letter("n"))>>) : ms \in DelayTimes}

\* The letters logged, in order.
RECURSIVE Logged(_)
Logged(output) ==
    IF output = <<>> THEN <<>>
    ELSE IF Head(output).k = "log" THEN Head(output).text \o Logged(Tail(output))
    ELSE Logged(Tail(output))

InitFlow ==
    /\ app = FlowApp
    /\ values = runtime_new(app).values
    /\ locals = runtime_new(app).locals
    /\ dirty = runtime_new(app).dirty
    /\ focused_input = None
    /\ current_route = <<"/">>
    /\ layout_boxes = <<>>
    /\ out = <<>>
    /\ overflow_checks \in BOOLEAN
    /\ browser = browser_new
    /\ host = host_new
    /\ ev = [op |-> "init"]

\* for (i, param) in action.params: self.state.set_local(param, value)
FlowBind(k, v) ==
    /\ StoreBecomes(store_set_local(Store, k, v))
    /\ out' = <<>>
    /\ ev' = [op |-> "set_local", key |-> k]
    /\ UNCHANGED <<focused_input, current_route, layout_boxes, app, overflow_checks, browser, host>>

\* The interpreter has returned done.
FlowRuns(done, event) ==
    /\ ~Abort(done.flow)
    /\ values' = done.rt.values
    /\ locals' = done.rt.locals
    /\ dirty' = done.rt.dirty
    /\ current_route' = done.rt.current_route
    /\ out' = done.rt.out
    /\ ev' = [event EXCEPT !.flow = done.flow]
    /\ UNCHANGED <<focused_input, layout_boxes, app, overflow_checks, browser, host>>

FlowStatement(stmt) ==
    FlowRuns(execute_statement(app.actions, stmt, Rt, MaxSteps),
             [op |-> "statement", stmt |-> stmt, flow |-> "", pre |-> PreScript])

FlowAction(name, args) ==
    FlowRuns(execute_action(app.actions, app.actions[name], args, Rt, MaxSteps),
             [op |-> "action", name |-> name, args |-> args, flow |-> "", pre |-> PreScript])

\* self.state.mark_clean() at the end of a render
FlowClean ==
    /\ StoreBecomes(store_mark_clean(Store))
    /\ out' = <<>>
    /\ ev' = [op |-> "mark_clean"]
    /\ UNCHANGED <<focused_input, current_route, layout_boxes, app, overflow_checks, browser, host>>

NextFlow ==
    \/ FlowBind("x", VInt(5))
    \/ \E stmt \in FlowStatements : FlowStatement(stmt)
    \/ \E name \in DOMAIN FlowActions, args \in FlowArgs : FlowAction(name, args)
    \/ FlowClean

SpecFlow == InitFlow /\ [][NextFlow]_vars

Ran(name) == ev.op = "action" /\ ev.name = name

StoreAsBefore ==
    /\ values = ev.pre.values
    /\ dirty = ev.pre.dirty
    /\ current_route = ev.pre.current_route

\* C21: Fetch completes at once without changing values, locals, dirty flag,
\* focus or route and without running its success or error handler; Delay runs
\* its body at once in place whatever its duration; and the statements that
\* follow either of them run within the same action execution.
C21_FetchDelayImmediate ==
    /\ (ev.op = "statement" /\ ev.stmt.s = "Fetch") =>
            /\ ev.flow = "Continue"
            /\ StoreAsBefore
            /\ locals = ev.pre.locals
            /\ focused_input = None
            /\ Logged(out) = <<>>
    /\ (ev.op = "statement" /\ ev.stmt.s = "Delay") =>
            /\ ev.flow = "Continue"
            /\ Logged(out) = <<"n">>
    /\ Ran("after_fetch") => (Logged(out) = <<"a">> /\ StoreAsBefore)
    /\ Ran("after_delay") => (Logged(out) = <<"n", "a">> /\ StoreAsBefore)

C21_Witness ==
    /\ ev.op = "statement" /\ ev.stmt.s = "Fetch"
    /\ Has(app.actions, ev.stmt.on_success) /\ Has(app.actions, ev.stmt.on_error)
    /\ Has(locals, "x") /\ ~dirty
    /\ out = <<[k |-> "fetch", text |-> <<"u">>]>>

\* C24: a continue statement executed inside a ForEach or While body skips the
\* rest of the body for that iteration: no statement that follows it in the
\* body runs in that iteration, and the loop goes on with its next iteration.
C24_ContinueSkipsRest ==
    /\ Ran("skip_each") => Logged(out) = <<"i", "i">>
    /\ Ran("skip_while") => Logged(out) = <<>>

\* C25: a Return ends the action that executes it: no later statement of that
\* action runs, whether the Return stands at the top level or nested inside If,
\* ForEach, While or Delay blocks; its value is discarded, and a caller that
\* invoked the action by a Call resumes at the statement after the Call.
C25_ReturnEndsAction ==
    /\ Ran("ret_top") => Logged(out) = <<"p">>
    /\ Ran("ret_each") => Logged(out) = <<"i">>
    /\ (\E name \in {"ret_if", "ret_while", "ret_delay", "ret_deep"} : Ran(name)) =>
            Logged(out) = <<>>
    /\ Ran("call_ret") => Logged(out) = <<"r">>
    /\ (\E name \in {"ret_top", "ret_if", "ret_each", "ret_while", "ret_delay", "ret_deep",
                     "call_ret"} : Ran(name)) =>
            (StoreAsBefore /\ ev.flow = "Continue" /\ locals = EmptyMap)

C25_Witness == Ran("call_ret") /\ Logged(out) = <<"r">> /\ ~dirty

\* C26: a Break executed inside a ForEach or While body, possibly nested inside
\* If or Delay blocks of that body, ends only the innermost enclosing loop: no
\* further iteration of that loop runs, the signal is not passed on, and the
\* statement that follows the loop executes.
C26_BreakEndsInnermostLoop ==
    /\ (\E name \in {"brk_each", "brk_nested", "brk_while"} : Ran(name)) =>
            Logged(out) = <<"i", "a">>
    /\ Ran("brk_inner") => Logged(out) = <<"i", "i", "a">>

C26_Witness == Ran("brk_inner") /\ Logged(out) = <<"i", "i", "a">>

\* C27: after an Assign to variable x executes inside an action, a read of x
\* later in the same action yields the assigned value, including when x is
\* also bound as a parameter or as a loop variable of that action.
C27_ReadAfterAssign ==
    (Ran("set_plain") \/ Ran("set_param") \/ Ran("set_loop")) => Logged(out) = <<"1">>

-----------------------------------------------------------------------------
(* Spec: the runtime of a loaded application, driven by the host's events. *)

Keys == {"a", "é"}

PreRuntime == [values |-> values, locals |-> locals, dirty |-> dirty,
               focused_input |-> focused_input, layout_boxes |-> layout_boxes]

\* The points the pointer is clicked at: the corners of every registered region,
\* the point just right of it, and the far corner of the content area.
ClickPoints ==
    UNION {{<<layout_boxes[i].x, layout_boxes[i].y>>,
            <<layout_boxes[i].x + layout_boxes[i].width - 1,
              layout_boxes[i].y + layout_boxes[i].height - 1>>,
            <<layout_boxes[i].x + layout_boxes[i].width, layout_boxes[i].y>>}
           : i \in 1 .. Len(layout_boxes)}
      \cup {<<ContentFb.width - 1, ContentFb.height - 1>>}

Init ==
    /\ app \in Apps
    /\ values = runtime_new(app).values
    /\ locals = runtime_new(app).locals
    /\ dirty = runtime_new(app).dirty
    /\ focused_input = None
    /\ current_route = <<"/">>
    /\ layout_boxes = <<>>
    /\ out = <<>>
    /\ overflow_checks \in BOOLEAN
    /\ browser = browser_new
    /\ host = host_new
    /\ ev = [op |-> "init"]

RuntimeBecomes(done) ==
    /\ ~Abort(done.flow)
    /\ values' = done.rt.values
    /\ locals' = done.rt.locals
    /\ dirty' = done.rt.dirty
    /\ current_route' = done.rt.current_route
    /\ out' = done.rt.out
    /\ focused_input' = done.focused_input

\* The name of the action a click at (x, y) runs, if any.
ClickedAction(x, y) ==
    LET hit == hit_test(layout_boxes, x, y)
    IN  IF IsSome(hit) /\ IsSome(Unwrap(hit).action) /\ Has(app.actions, Unwrap(Unwrap(hit).action))
        THEN Unwrap(hit).action
        ELSE None

\* An event handler has returned done: the runtime takes its state, and the
\* event is recorded with the handler's result.
Handles(done, event) ==
    /\ RuntimeBecomes(done)
    /\ ev' = [event EXCEPT !.ret = done.ret]
    /\ UNCHANGED <<layout_boxes, app, overflow_checks, browser, host>>

HandleClick(x, y) ==
    Handles(handle_click(app, layout_boxes, Rt, focused_input, x, y),
            [op |-> "click", x |-> x, y |-> y, hit |-> hit_test(layout_boxes, x, y),
             action |-> ClickedAction(x, y), ret |-> FALSE, pre |-> PreRuntime])

HandleKey(key) ==
    /\ IsSome(focused_input) => Len(CurrentText(Rt, Unwrap(focused_input))) < MaxText
    /\ Handles(handle_key(Rt, focused_input, key),
               [op |-> "key", key |-> key, ret |-> FALSE, pre |-> PreRuntime])

HandleBackspace ==
    Handles(handle_backspace(Rt, focused_input),
            [op |-> "backspace", ret |-> FALSE, pre |-> PreRuntime])

Invalidate ==
    /\ RuntimeBecomes(Handled(runtime_invalidate(Rt), focused_input, TRUE, "Continue"))
    /\ ev' = [op |-> "invalidate", pre |-> PreRuntime]
    /\ UNCHANGED <<layout_boxes, app, overflow_checks, browser, host>>

\* A render has returned done: the registry is the paint pass's, the store is clean.
Renders(done) ==
    /\ RuntimeBecomes(Handled(done.rt, focused_input, TRUE, "Continue"))
    /\ layout_boxes' = done.painted.boxes
    /\ ev' = [op |-> "render", drawn |-> done.painted.drawn, pre |-> PreRuntime]
    /\ UNCHANGED <<app, overflow_checks, browser, host>>

Render == Renders(runtime_render(app, layout_boxes, Rt, ContentFb, 0))

Next ==
    \/ \E point \in ClickPoints : HandleClick(point[1], point[2])
    \/ \E key \in Keys : HandleKey(key)
    \/ HandleBackspace
    \/ Invalidate
    \/ Render

Spec == Init /\ [][Next]_vars

\* C2: every input-focus change made by handle_click leaves the dirty flag set,
\* including a click outside every interactive region that removes the focus
\* from an input.
C2_FocusChangeDirty ==
    (ev.op = "click" /\ focused_input # ev.pre.focused_input) => dirty

CalledOuter == ev.op = "click" /\ ev.action \in {Some("main"), Some("main_loop")}

\* C3: when action A with parameter x calls action B, and B binds the local x
\* (as its parameter or as a loop variable), then after the Call returns a read
\* of x in A yields the value B last bound to x.
C3_CallerSeesCalleeBinding ==
    CalledOuter =>
        /\ values["before"] = VInt(1)
        /\ values["bound"] = VInt(7)
        /\ values["seen"] = values["bound"]

\* C4: invoking an action binds its i-th parameter to the i-th argument, or to
\* Null when fewer arguments are supplied; when the invocation started by an
\* event completes, however its body ended, the locals map is empty.
C4_ParamsBoundLocalsCleared ==
    /\ locals = EmptyMap
    /\ (ev.op = "click" /\ ev.action = Some("pair")) =>
            values["pa"] = Null /\ values["pb"] = Null
    /\ (ev.op = "click" /\ ev.action = Some("call_pair")) =>
            values["pa"] = VInt(1) /\ values["pb"] = Null
    /\ (ev.op = "click" /\ ev.action = Some("call_pair3")) =>
            values["pa"] = VInt(1) /\ values["pb"] = VInt(2)
    /\ (ev.op = "click" /\ ev.action \in {Some("ends_return"), Some("ends_break")}) =>
            values["pa"] = Null /\ values["pb"] = ev.pre.values["pb"]

C4_Witness ==
    /\ ev.op = "click"
    /\ ev.action = Some("call_pair")
    /\ values["pa"] = VInt(1)
    /\ values["pb"] = Null
    /\ locals = EmptyMap

Annotations(box) ==
    (IF IsSome(box.action) THEN 1 ELSE 0) + (IF IsSome(box.input_binding) THEN 1 ELSE 0)
        + (IF IsSome(box.link_href) THEN 1 ELSE 0)

\* C6: every region a paint pass puts in the registry is annotated with exactly
\* one of {action name, input-binding key, link href}, including the region of an
\* Input or TextArea that has no bind property.
C6_ExactlyOneAnnotation ==
    \A i \in 1 .. Len(layout_boxes) : Annotations(layout_boxes[i]) = 1

\* The regions a paint pass over the view registers, in the state before the render.
PaintPass(pre) ==
    render_node(app.view, [values |-> pre.values, computed |-> app.computed, locals |-> pre.locals],
                Ctx(0, 0, ContentFb.width, ContentFb.height), ContentFb, Painted(<<>>, <<>>)).boxes

\* C7: after every render() the registry contains exactly the regions registered
\* during that paint pass: no region of an earlier paint survives.
C7_RegistryRebuilt ==
    (ev.op = "render") => layout_boxes = PaintPass(ev.pre)

C7_Witness ==
    /\ ev.op = "render"
    /\ layout_boxes = PaintPass(ev.pre)
    /\ \E i \in 1 .. Len(ev.pre.layout_boxes) :
            \A j \in 1 .. Len(layout_boxes) : layout_boxes[j] # ev.pre.layout_boxes[i]

\* The string form of the value read under binding in the state before the event.
PreText(binding) ==
    CurrentText([values |-> ev.pre.values, computed |-> app.computed, locals |-> ev.pre.locals],
                binding)

\* The event changed nothing: values, locals, dirty flag and focus are as before.
NothingChanged ==
    /\ values = ev.pre.values
    /\ locals = ev.pre.locals
    /\ dirty = ev.pre.dirty
    /\ focused_input = ev.pre.focused_input

\* C11: handle_backspace, when an input binding b is focused and the string
\* form of its value is non-empty, removes exactly the last character of that
\* string, stores the result under b and returns true; when the string is empty
\* or no input is focused it returns false and changes nothing.
C11_BackspaceRemovesLast ==
    (ev.op = "backspace") =>
        IF IsSome(ev.pre.focused_input) /\ PreText(Unwrap(ev.pre.focused_input)) # <<>>
        THEN LET b == Unwrap(ev.pre.focused_input)
             IN  /\ ev.ret
                 /\ values = Put(ev.pre.values, b,
                                 VString(SubSeq(PreText(b), 1, Len(PreText(b)) - 1)))
        ELSE ~ev.ret /\ NothingChanged

\* C12: handle_key(c), when no input is focused, returns false and changes
\* nothing (values, locals, dirty flag, focus); when input binding b is focused
\* it returns true, stores under b the string form of b's current value followed
\* by c, changes no other key, and sets the dirty flag.
C12_KeyAppends ==
    (ev.op = "key") =>
        IF IsSome(ev.pre.focused_input)
        THEN LET b == Unwrap(ev.pre.focused_input)
             IN  /\ ev.ret
                 /\ values = Put(ev.pre.values, b, VString(PreText(b) \o <<ev.key>>))
                 /\ dirty
                 /\ locals = ev.pre.locals
                 /\ focused_input = ev.pre.focused_input
        ELSE ~ev.ret /\ NothingChanged

C12_Witness ==
    /\ ev.op = "key"
    /\ ev.pre.focused_input = Some("name")
    /\ ev.pre.values["name"] = VString(<<"a">>)
    /\ ~ev.pre.dirty
    /\ ev.ret
    /\ values["name"] = VString(<<"a", ev.key>>)
    /\ dirty

\* The store after one execution of the named action, with no arguments, in
\* the state before the event.
RunOnce(action) ==
    execute_action(app.actions, app.actions[action], <<>>,
                   [values |-> ev.pre.values, computed |-> app.computed, locals |-> ev.pre.locals,
                    dirty |-> ev.pre.dirty, current_route |-> <<"/">>, out |-> <<>>],
                   MaxSteps).rt

\* C13: handle_click(x, y) returns true exactly when the region found by
\* hit-testing either names an action defined in the application, which is then
\* executed once with no arguments, or carries an input binding, which then
\* becomes the focused input; a click that hits no region returns false and
\* clears the focus.
C13_ClickResult ==
    (ev.op = "click") =>
        /\ ev.ret = (IsSome(ev.hit)
                       /\ (IsSome(ev.action) \/ IsSome(Unwrap(ev.hit).input_binding)))
        /\ IsSome(ev.action) =>
                /\ values = RunOnce(Unwrap(ev.action)).values
                /\ focused_input = ev.pre.focused_input
        /\ (IsSome(ev.hit) /\ ~IsSome(ev.action) /\ IsSome(Unwrap(ev.hit).input_binding)) =>
                /\ focused_input = Unwrap(ev.hit).input_binding
                /\ values = ev.pre.values
        /\ ~IsSome(ev.hit) => focused_input = None /\ values = ev.pre.values

\* A click on a button whose action is defined ran it once: count went from 1 to 2.
C13_Witness ==
    /\ ev.op = "click"
    /\ ev.action = Some("inc")
    /\ ev.ret
    /\ ev.pre.values["count"] = VInt(1)
    /\ values["count"] = VInt(2)

\* C14: a newly created or initialised StateStore is dirty; the dirty flag is
\* cleared only by render() (through mark_clean), never by an event handler or
\* a statement, so once set it stays set until the next render; and
\* invalidate() called on a clean store sets it again.
C14_DirtyUntilRender ==
    /\ store_new.dirty
    /\ store_init(store_mark_clean(Store), app.state).dirty
    /\ (ev.op = "init") => dirty
    /\ (ev.op \in {"click", "key", "backspace", "invalidate"} /\ ev.pre.dirty) => dirty
    /\ (ev.op = "invalidate") => dirty
    /\ (ev.op = "render") => ~dirty

\* A click ran an action's statements on a dirty store, and the store is still dirty.
C14_Witness ==
    /\ ev.op = "click"
    /\ IsSome(ev.action)
    /\ values # ev.pre.values
    /\ ev.pre.dirty
    /\ dirty

Registered(boxes, box) == \E i \in 1 .. Len(boxes) : boxes[i] = box

\* C28: a click is resolved against the interactive regions of the current
\* state: when an action has changed the state since the last paint, a click
\* delivered before the next paint cannot trigger the action, or focus the
\* input, of a node that the current state no longer shows.
C28_ClickOnShownRegion ==
    (ev.op = "click" /\ ev.ret) =>
        Registered(PaintPass(ev.pre), Unwrap(ev.hit))

-----------------------------------------------------------------------------
(* SpecHit: the interactive-region registry filled by pushes, as a paint pass *)
(* fills it, and queried by hit_test.                                         *)

HitBoxes ==
    {LayoutBox(r[1], 0, r[2], h, Some(a), None, None) :
        r \in {<<0, 2>>, <<1, 2>>, <<0, 0>>}, h \in {1, 2}, a \in {"A", "B"}}

HitPoints == {<<x, y>> : x \in -1 .. 3, y \in -1 .. 2}

InitHit ==
    /\ values = EmptyMap
    /\ locals = EmptyMap
    /\ dirty = TRUE
    /\ focused_input = None
    /\ current_route = <<"/">>
    /\ layout_boxes = <<>>
    /\ out = <<>>
    /\ app = NoApp
    /\ overflow_checks \in BOOLEAN
    /\ browser = browser_new
    /\ host = host_new
    /\ ev = [op |-> "init"]

HitFrame == UNCHANGED <<values, locals, dirty, focused_input, current_route, out, app, overflow_checks, browser, host>>

\* self.layout_boxes.push(LayoutBox { .. })
PushBox(box) ==
    /\ Len(layout_boxes) < MaxBoxes
    /\ layout_boxes' = Append(layout_boxes, box)
    /\ ev' = [op |-> "push"]
    /\ HitFrame

\* self.layout_boxes.clear()
ClearBoxes ==
    /\ layout_boxes' = <<>>
    /\ ev' = [op |-> "clear"]
    /\ HitFrame

HitTest(x, y) ==
    /\ ev' = [op |-> "hit_test", x |-> x, y |-> y, ret |-> hit_test(layout_boxes, x, y)]
    /\ UNCHANGED layout_boxes
    /\ HitFrame

NextHit ==
    \/ \E box \in HitBoxes : PushBox(box)
    \/ ClearBoxes
    \/ \E point \in HitPoints : HitTest(point[1], point[2])

SpecHit == InitHit /\ [][NextHit]_vars

InRect(box, x, y) ==
    x \in box.x .. (box.x + box.width - 1) /\ y \in box.y .. (box.y + box.height - 1)

\* C5: hit_test(x, y) returns the earliest-registered region whose rectangle
\* [x0, x0+width) x [y0, y0+height) contains the point, and nothing when no region
\* contains it.
C5_EarliestRegistered ==
    (ev.op = "hit_test") =>
        LET inside == {i \in 1 .. Len(layout_boxes) : InRect(layout_boxes[i], ev.x, ev.y)}
        IN  IF inside = {} THEN ev.ret = None
            ELSE \E i \in inside : (\A j \in inside : i <= j) /\ ev.ret = Some(layout_boxes[i])

C5_Witness ==
    /\ ev.op = "hit_test"
    /\ Len(layout_boxes) >= 2
    /\ InRect(layout_boxes[1], ev.x, ev.y)
    /\ InRect(layout_boxes[2], ev.x, ev.y)
    /\ layout_boxes[1] # layout_boxes[2]
    /\ ev.ret = Some(layout_boxes[1])

-----------------------------------------------------------------------------
(* SpecPaint: the measure and paint passes over a parent of every kind that   *)
(* lays out children, with a first child whose visible property is false.     *)

ParentKinds ==
    {"Column", "Stack", "Row", "Grid", "Center", "Scroll", "Box", "Toast", "Tooltip", "Popover",
     "Show", "Slot", "Component", "Card", "Table", "List", "Each", "Modal", "If", "Switch"}

FalseVisibilities ==
    {Static(VBool(FALSE)), Expr(Literal(VBool(FALSE))), Expr(Literal(VInt(0))),
     Expr(Variable("off")), Expr(Variable("unset"))}

HiddenChild(visible) ==
    Node(1, "Button", [content |-> Static(Str(<<"h">>)), on_click |-> Handler("hidden"),
                       visible |-> visible], <<>>)

ShownChild == Node(2, "Button", Props("s", "shown"), <<>>)

PaintView(kind, children) == Node(0, kind, [open |-> Static(VBool(TRUE))], children)

PaintApp(kind, visible) ==
    App(kind, [off |-> VBool(FALSE)], EmptyMap, PaintView(kind, <<HiddenChild(visible), ShownChild>>))

MeasureWidths == {100, ContentFb.width}

InitPaint ==
    /\ app \in {PaintApp(kind, visible) : kind \in ParentKinds, visible \in FalseVisibilities}
    /\ values = runtime_new(app).values
    /\ locals = runtime_new(app).locals
    /\ dirty = runtime_new(app).dirty
    /\ focused_input = None
    /\ current_route = <<"/">>
    /\ layout_boxes = <<>>
    /\ out = <<>>
    /\ overflow_checks \in BOOLEAN
    /\ browser = browser_new
    /\ host = host_new
    /\ ev = [op |-> "init"]

Measure(width) ==
    /\ ev' = [op |-> "measure", width |-> width, size |-> measure_node(app.view, Rt, width)]
    /\ UNCHANGED <<values, locals, dirty, focused_input, current_route, layout_boxes, out, app,
                   overflow_checks, browser, host>>

NextPaint ==
    \/ Render
    \/ \E width \in MeasureWidths : Measure(width)

SpecPaint == InitPaint /\ [][NextPaint]_vars

\* C8: a child whose visible property is false, given as a static boolean or as
\* an expression that evaluates to a falsy value, is skipped in the measure pass
\* and in the paint pass whatever the kind of its parent: it adds nothing to the
\* parent's measured size, draws nothing and registers no interactive region.
C8_InvisibleChildSkipped ==
    /\ (ev.op = "measure") =>
            ev.size = measure_node(PaintView(app.view.kind, <<ShownChild>>), Rt, ev.width)
    /\ (ev.op = "render") =>
            /\ \A i \in 1 .. Len(ev.drawn) : ev.drawn[i] # 1
            /\ \A i \in 1 .. Len(layout_boxes) : layout_boxes[i].action # Some("hidden")

-----------------------------------------------------------------------------
(* SpecHost: the browser of main.rs.  The event loop delivers window events,  *)
(* MainEventsCleared once the pending events are handled, and RedrawRequested *)
(* after a window.request_redraw().                                           *)

\* The number of entries the history is let grow to.
MaxHistory == 2

\* The number of characters typed into a content input.
MaxTyped == 1

\* The page every successful load parses to: a button that shows and hides a
\* Video, an Input, and a Link to another page.
HostPage ==
    App("page",
        [tall |-> VBool(TRUE), name |-> Str(<<>>)],
        [toggle |-> ActionBlock(<<>>, <<Assign("tall", Unary("Not", Variable("tall")))>>)],
        Node(0, "Column", EmptyMap, <<
            Node(1, "Button", Props("t", "toggle"), <<>>),
            Node(2, "Input", [bind |-> Handler("name")], <<>>),
            Node(3, "Link", [content |-> Static(Str(<<>>)), href |-> Static(Str(<<"h", "t", "t", "p", "s", ":", "/", "/", "h">>))], <<>>),
            Node(4, "Video", [visible |-> Expr(Variable("tall"))], <<>>) >>))

\* The paths submitted in the address bar or given on the command line: the
\* home page, a relative path that is not a .prism file, a path with "..", a
\* remote http URL and an https URL.
Paths == {HomePath, <<"p", ".", "t", "x", "t">>, <<"/", ".", ".", "/", "p", ".", "p", "r", "i", "s", "m">>, <<"h", "t", "t", "p", ":", "/", "/", "h">>, <<"h", "t", "t", "p", "s", ":", "/", "/", "h">>}

\* The outcomes of one load: everything succeeds, or a stage fails.
AllOk == [readable |-> TRUE, connects |-> TRUE, status_ok |-> TRUE, body_ok |-> TRUE,
          parsed |-> Some(HostPage)]

\* The file cannot be read and the server answers with an error status; the
\* source does not parse.
Worlds ==
    {AllOk, [AllOk EXCEPT !.readable = FALSE, !.status_ok = FALSE], [AllOk EXCEPT !.parsed = None]}

WindowSizes == {<<DEFAULT_WIDTH, DEFAULT_HEIGHT>>, <<DEFAULT_WIDTH, 184>>}

WheelDeltas == {40, -40}

\* Pointer positions in the chrome: back, forward, home, the address bar, a gap.
ChromeXs == {10, 45, 80, 140, 5}

\* Pointer positions in the content area: the lower left corner of every
\* registered region that is in view, and the far corner of the window.
HostClickPoints ==
    {<<layout_boxes[i].x, layout_boxes[i].y + layout_boxes[i].height - 1 + CHROME_HEIGHT>> :
        i \in {j \in 1 .. Len(layout_boxes) : layout_boxes[j].y + layout_boxes[j].height - 1 >= 0}}
      \cup {<<host.width - 1, host.height - 1>>}

\* self.runtime = Some(Runtime::new(a))
RuntimeCreated(a) ==
    /\ values' = runtime_new(a).values
    /\ locals' = runtime_new(a).locals
    /\ dirty' = runtime_new(a).dirty
    /\ focused_input' = None
    /\ current_route' = <<"/">>
    /\ layout_boxes' = <<>>
    /\ app' = a

\* self.runtime = None
RuntimeDropped ==
    /\ values' = EmptyMap
    /\ locals' = EmptyMap
    /\ dirty' = FALSE
    /\ focused_input' = None
    /\ current_route' = <<"/">>
    /\ layout_boxes' = <<>>
    /\ app' = NoApp

RuntimeKept == UNCHANGED <<values, locals, dirty, focused_input, current_route, layout_boxes, app>>

\* What the event did about loading a page.
LoadOf(nav) == IF ~nav.navigated THEN "none" ELSE IF IsSome(nav.app) THEN "loaded" ELSE "failed"

NoLoad == "none"

\* A handler that may navigate has returned nav; needs_redraw is raised when
\* the event loop does so after the handler.
Navigates(nav, redraw, event) ==
    /\ ~nav.panicked
    /\ Len(nav.browser.history) <= MaxHistory
    /\ browser' = nav.browser
    /\ IF nav.navigated
       THEN IF IsSome(nav.app) THEN RuntimeCreated(Unwrap(nav.app)) ELSE RuntimeDropped
       ELSE RuntimeKept
    /\ host' = [host EXCEPT !.needs_redraw = @ \/ redraw]
    /\ ev' = [op |-> event, load |-> LoadOf(nav)]
    /\ UNCHANGED <<out, overflow_checks>>

\* A handler of the Runtime has returned done.
RuntimeHandles(done, redraw, event) ==
    /\ RuntimeBecomes(done)
    /\ host' = [host EXCEPT !.needs_redraw = @ \/ redraw]
    /\ ev' = [op |-> event, load |-> NoLoad]
    /\ UNCHANGED <<layout_boxes, app, overflow_checks, browser>>

\* An event that changes the Browser at most, and not its runtime.
BrowserBecomes(b, redraw, event) ==
    /\ browser' = b
    /\ host' = [host EXCEPT !.needs_redraw = @ \/ redraw]
    /\ ev' = [op |-> event, load |-> NoLoad]
    /\ RuntimeKept
    /\ UNCHANGED <<out, overflow_checks>>

InitHost ==
    \E nav \in {navigate(browser_new, path, world) : path \in Paths, world \in Worlds}
               \cup {Nav(browser_new, FALSE, None)} :
        /\ browser = nav.browser
        /\ app = IF IsSome(nav.app) THEN Unwrap(nav.app) ELSE NoApp
        /\ values = IF IsSome(nav.app) THEN runtime_new(Unwrap(nav.app)).values ELSE EmptyMap
        /\ locals = EmptyMap
        /\ dirty = IsSome(nav.app)
        /\ focused_input = None
        /\ current_route = <<"/">>
        /\ layout_boxes = <<>>
        /\ out = <<>>
        /\ overflow_checks = FALSE
        /\ host = host_new
        /\ ev = [op |-> "init", load |-> LoadOf(nav)]

\* WindowEvent::Resized
Resized(width, height) ==
    /\ host' = [host EXCEPT !.width = width, !.height = height, !.needs_redraw = TRUE]
    /\ dirty' = IF browser.runtime THEN runtime_invalidate(Rt).dirty ELSE dirty
    /\ ev' = [op |-> "resized", load |-> NoLoad]
    /\ UNCHANGED <<values, locals, focused_input, current_route, layout_boxes, out, app,
                   overflow_checks, browser>>

\* WindowEvent::MouseInput with the pointer in the chrome.
ChromeClick(mx, home_exists, world) ==
    Navigates(handle_chrome_click(browser, mx, host.width, home_exists, world), TRUE, "click")

\* WindowEvent::MouseInput with the pointer in the content area, on a link.
LinkClick(mx, my, world) ==
    /\ my >= CHROME_HEIGHT
    /\ browser.runtime
    /\ IsSome(hit_test(layout_boxes, mx, my - CHROME_HEIGHT))
    /\ IsSome(Unwrap(hit_test(layout_boxes, mx, my - CHROME_HEIGHT)).link_href)
    /\ Navigates(navigate(browser, Unwrap(Unwrap(hit_test(layout_boxes, mx, my - CHROME_HEIGHT)).link_href),
                          world), TRUE, "click")

\* WindowEvent::MouseInput with the pointer in the content area, not on a link.
ContentClick(mx, my) ==
    /\ my >= CHROME_HEIGHT
    /\ browser.runtime
    /\ ~(/\ IsSome(hit_test(layout_boxes, mx, my - CHROME_HEIGHT))
         /\ IsSome(Unwrap(hit_test(layout_boxes, mx, my - CHROME_HEIGHT)).link_href))
    /\ RuntimeHandles(handle_click(app, layout_boxes, Rt, focused_input, mx, my - CHROME_HEIGHT),
                      TRUE, "click")

\* WindowEvent::MouseInput with the pointer in the content area and no runtime.
IdleClick(mx, my) ==
    /\ my >= CHROME_HEIGHT
    /\ ~browser.runtime
    /\ BrowserBecomes(browser, FALSE, "click")

\* WindowEvent::MouseWheel
MouseWheel(scroll_delta) ==
    /\ browser.runtime
    /\ BrowserBecomes([browser EXCEPT !.scroll_y = wheel_scroll(browser, scroll_delta)],
                      wheel_scroll(browser, scroll_delta) # browser.scroll_y, "wheel")

\* handle_key_input, address bar focused: Return submits the text path.
AddressReturn(path, world) ==
    /\ browser.address_focused
    /\ Navigates(navigate([browser EXCEPT !.address_focused = FALSE], path, world), TRUE, "key")

\* handle_key_input, address bar focused: Escape, the cursor keys, Back and
\* Delete (handled), any other key (not handled).
AddressKey(key) ==
    /\ browser.address_focused
    /\ BrowserBecomes([browser EXCEPT !.address_focused = (key # "Escape")],
                      key \in {"Escape", "Left", "Back"}, "key")

\* handle_key_input, address bar not focused: Back in a focused content input.
BackKey ==
    /\ ~browser.address_focused
    /\ browser.runtime
    /\ IsSome(focused_input)
    /\ RuntimeHandles(handle_backspace(Rt, focused_input), TRUE, "key")

\* handle_key_input, address bar not focused: Alt+Left and Alt+Right.
HistoryKey(key, world) ==
    /\ ~browser.address_focused
    /\ Navigates(IF key = "Left" THEN go_back(browser, world) ELSE go_forward(browser, world),
                 TRUE, "key")

\* handle_key_input, address bar not focused: F6 (handled), any other key (not).
PlainKey(key) ==
    /\ ~browser.address_focused
    /\ BrowserBecomes([browser EXCEPT !.address_focused = (key = "F6")], key = "F6", "key")

\* handle_received_char with the address bar focused: insert_char.
AddressChar ==
    /\ browser.address_focused
    /\ BrowserBecomes(browser, TRUE, "char")

\* handle_received_char with a content input focused: rt.handle_key(ch).
ReceivedCharacter(ch) ==
    /\ ~browser.address_focused
    /\ browser.runtime
    /\ IsSome(focused_input)
    /\ Len(CurrentText(Rt, Unwrap(focused_input))) < MaxTyped
    /\ RuntimeHandles(handle_key(Rt, focused_input, ch), TRUE, "char")

\* Event::MainEventsCleared; blink tells whether this tick toggled the address
\* bar's cursor.
MainEventsCleared(blink) ==
    /\ host' = [host EXCEPT
                    !.needs_redraw = @ \/ (browser.address_focused /\ blink),
                    !.redraw_requested =
                        @ \/ redraw_wanted(host.needs_redraw \/ (browser.address_focused /\ blink),
                                           browser.runtime, dirty)]
    /\ ev' = [op |-> "tick", load |-> NoLoad,
              requested |-> redraw_wanted(host.needs_redraw \/ (browser.address_focused /\ blink),
                                          browser.runtime, dirty)]
    /\ RuntimeKept
    /\ UNCHANGED <<out, overflow_checks, browser>>

\* render_browser has clamped the scroll position to b.scroll_y and painted.
Painted_at(b, done) ==
    /\ browser' = b
    /\ RuntimeBecomes(Handled(done.rt, focused_input, TRUE, "Continue"))
    /\ layout_boxes' = done.painted.boxes
    /\ ev' = [op |-> "redraw", load |-> NoLoad]

RenderBrowser(b) ==
    Painted_at(b, runtime_render(app, layout_boxes, Rt,
                                 [width |-> host.width, height |-> viewport_height(host.height)],
                                 b.scroll_y))

\* Event::RedrawRequested: render_browser, then needs_redraw = false.
RedrawRequested ==
    /\ host.redraw_requested
    /\ host' = [host EXCEPT !.needs_redraw = FALSE, !.redraw_requested = FALSE]
    /\ IF browser.runtime
       THEN RenderBrowser(clamp_scroll(browser, content_height(app, Rt, host.width),
                                       viewport_height(host.height)))
       ELSE /\ ev' = [op |-> "redraw", load |-> NoLoad]
            /\ RuntimeKept
            /\ UNCHANGED <<out, browser>>
    /\ UNCHANGED <<app, overflow_checks>>

NextHost ==
    \/ \E size \in WindowSizes : Resized(size[1], size[2])
    \/ \E mx \in ChromeXs, home_exists \in BOOLEAN, world \in Worlds :
            ChromeClick(mx, home_exists, world)
    \/ \E point \in HostClickPoints, world \in Worlds : LinkClick(point[1], point[2], world)
    \/ \E point \in HostClickPoints : ContentClick(point[1], point[2])
    \/ \E point \in HostClickPoints : IdleClick(point[1], point[2])
    \/ \E scroll_delta \in WheelDeltas : MouseWheel(scroll_delta)
    \/ \E path \in Paths, world \in Worlds : AddressReturn(path, world)
    \/ \E key \in {"Escape", "Left", "Back", "A"} : AddressKey(key)
    \/ BackKey
    \/ \E key \in {"Left", "Right"}, world \in Worlds : HistoryKey(key, world)
    \/ \E key \in {"F6", "A"} : PlainKey(key)
    \/ AddressChar
    \/ ReceivedCharacter("a")
    \/ \E blink \in BOOLEAN : MainEventsCleared(blink)
    \/ RedrawRequested

SpecHost == InitHost /\ [][NextHost]_vars

\* What a RedrawRequested step does to the event loop's own state: it is
\* enabled exactly when RedrawRequested is, and the RedrawRequested steps are
\* the steps of NextHost that satisfy it.
RedrawDelivered ==
    /\ host.redraw_requested
    /\ host' = [host EXCEPT !.needs_redraw = FALSE, !.redraw_requested = FALSE]
    /\ ev' = [op |-> "redraw", load |-> NoLoad]

\* The event loop runs with ControlFlow::Poll: MainEventsCleared keeps coming,
\* and a requested redraw is delivered as RedrawRequested.
SpecHostFair ==
    /\ SpecHost
    /\ WF_vars(\E blink \in BOOLEAN : MainEventsCleared(blink))
    /\ WF_<<host, ev>>(RedrawDelivered)

StoreDirty == browser.runtime /\ dirty

\* C15: at every host tick a redraw is requested if and only if the store is
\* dirty or a redraw was explicitly requested (needs_redraw); consequently every
\* mutation that sets the dirty flag is eventually followed by a render that
\* clears it, for as long as that store's Runtime exists; and a repaint happens
\* only when the store is dirty or a request is pending.
C15_RedrawIffDirtyOrRequested ==
    /\ [](ev.op = "tick" => (ev.requested <=> (host.needs_redraw \/ StoreDirty)))
    /\ StoreDirty ~> (~browser.runtime \/ (ev.op = "redraw" /\ ~dirty))
    /\ [][ev'.op = "redraw" => (host.needs_redraw \/ StoreDirty)]_vars

\* A render has cleared the dirty flag that the toggle action had set.
C15_Witness ==
    /\ ev.op = "redraw"
    /\ browser.runtime
    /\ ~dirty
    /\ values["tall"] = VBool(FALSE)

\* maxScroll for the content and the window as they are now.
MaxScrollNow == Max(0, content_height(app, Store, host.width) - viewport_height(host.height))

\* C19 (as amended): after any resize, state mutation or navigation, the scroll
\* position used for the next paint lies in [0, maxScroll], where maxScroll =
\* max(0, fullContentHeight - viewportHeight) is computed at that paint from the
\* content height after the event; a wheel event keeps the stored scroll
\* position within [0, max_scroll_y], the bound computed by the last paint.
C19_ScrollClamped ==
    /\ (ev.op = "redraw" /\ browser.runtime) =>
            /\ browser.max_scroll_y = MaxScrollNow
            /\ browser.scroll_y \in 0 .. MaxScrollNow
            /\ layout_boxes[1].y = -browser.scroll_y
    /\ browser.scroll_y \in 0 .. browser.max_scroll_y

\* A wheel event has moved the scroll position to the bound of the last paint.
C19_Witness ==
    /\ ev.op = "wheel"
    /\ browser.max_scroll_y > 0
    /\ browser.scroll_y = browser.max_scroll_y

\* C19 (as stated): a wheel event never moves the scroll position outside
\* [0, maxScroll], maxScroll being computed from the current content height.
C19_WheelWithinMaxScroll ==
    (ev.op = "wheel") => browser.scroll_y \in 0 .. MaxScrollNow

\* C20: when loading a page fails at any stage, no Runtime exists afterwards,
\* an error message is recorded and the history list is not modified; a Runtime
\* is created only from a completely parsed application, and then the recorded
\* error is cleared, so a Runtime and an error never coexist.
C20_FailedLoadLeavesNoRuntime ==
    /\ [](ev.load = "failed" => (~browser.runtime /\ IsSome(browser.last_error)))
    /\ [](ev.load = "loaded" =>
            /\ browser.runtime
            /\ browser.last_error = None
            /\ Some(app) \in {world.parsed : world \in Worlds}
            /\ values = runtime_new(app).values)
    /\ [](~(browser.runtime /\ IsSome(browser.last_error)))
    /\ [][ev'.load = "failed" => browser'.history = browser.history]_vars
    /\ [][(~browser.runtime /\ browser'.runtime) => ev'.load = "loaded"]_vars

\* A load has failed after pages had been loaded: the history is still there.
C20_Witness ==
    /\ ev.load = "failed"
    /\ browser.history # <<>>
    /\ ~browser.runtime
    /\ IsSome(browser.last_error)

\* C29: keyboard focus is exclusive: after any sequence of clicks and key
\* events the address bar and a content input are never focused at the same
\* time, so the character typed after a click has focused a content input goes
\* to that input's bound value.
C29_FocusExclusive == ~(browser.address_focused /\ browser.runtime /\ IsSome(focused_input))

-----------------------------------------------------------------------------
(* SpecNav: the history of the Browser under navigate, go_back and go_forward *)
(* calls, each of which may load its page or fail.                            *)

\* The paths navigated to: three pages that can load, a path that is not a
\* .prism file and a remote http URL.
NavPaths ==
    {HomePath, <<"/", "q", ".", "p", "r", "i", "s", "m">>, <<"h", "t", "t", "p", "s", ":", "/", "/", "h">>,
     <<"p", ".", "t", "x", "t">>, <<"h", "t", "t", "p", ":", "/", "/", "h">>}

can_go_back(b) == b.history_index > 0

can_go_forward(b) == b.history_index + 1 < Len(b.history)

InitNav ==
    /\ browser = browser_new
    /\ app = NoApp
    /\ values = EmptyMap
    /\ locals = EmptyMap
    /\ dirty = FALSE
    /\ focused_input = None
    /\ current_route = <<"/">>
    /\ layout_boxes = <<>>
    /\ out = <<>>
    /\ overflow_checks = FALSE
    /\ host = host_new
    /\ ev = [op |-> "new", load |-> NoLoad, pre |-> browser_new, path |-> <<>>]

\* A call on the Browser has returned nav.
NavCall(nav, event, path) ==
    /\ ~nav.panicked
    /\ browser' = nav.browser
    /\ IF nav.navigated
       THEN IF IsSome(nav.app) THEN RuntimeCreated(Unwrap(nav.app)) ELSE RuntimeDropped
       ELSE RuntimeKept
    /\ ev' = [op |-> event, load |-> LoadOf(nav), pre |-> browser, path |-> path]
    /\ UNCHANGED <<out, overflow_checks, host>>

\* Browser::navigate, while the history has room for one more entry.
NavigateTo(path, world) ==
    /\ browser.history = <<>> \/ browser.history_index + 1 < MaxHistory
    /\ NavCall(navigate(browser, path, world), "navigate", path)

\* Browser::go_back
GoBack(world) == NavCall(go_back(browser, world), "go_back", <<>>)

\* Browser::go_forward
GoForward(world) == NavCall(go_forward(browser, world), "go_forward", <<>>)

NextNav ==
    \/ \E path \in NavPaths, world \in Worlds : NavigateTo(path, world)
    \/ \E world \in Worlds : GoBack(world)
    \/ \E world \in Worlds : GoForward(world)

SpecNav == InitNav /\ [][NextNav]_vars

\* C30: after any sequence of navigate, go_back and go_forward calls, loaded or
\* failed, history_index designates an existing entry whenever the history is
\* not empty; go_back and go_forward leave the entries as they were; and a
\* navigate that loads a page other than the current one from the middle of
\* the history keeps the entries up to the current one, puts the new page last
\* and makes it current, so that go_forward is unavailable.
C30_HistoryIndexValid ==
    /\ browser.history # <<>> =>
            (0 <= browser.history_index /\ browser.history_index < Len(browser.history))
    /\ ev.op \in {"go_back", "go_forward"} => browser.history = ev.pre.history
    /\ (/\ ev.op = "navigate"
        /\ ev.load = "loaded"
        /\ can_go_forward(ev.pre)
        /\ ev.pre.history[ev.pre.history_index + 1] # ev.path) =>
            /\ browser.history =
                    Append(SubSeq(ev.pre.history, 1, ev.pre.history_index + 1), ev.path)
            /\ browser.history_index = Len(browser.history) - 1
            /\ ~can_go_forward(browser)

\* After a failed load, a page was loaded from the middle of a history whose
\* current and forward entries were other pages.
C30_Witness ==
    /\ ev.op = "navigate"
    /\ ev.load = "loaded"
    /\ can_go_forward(ev.pre)
    /\ ev.pre.history[ev.pre.history_index + 1] # ev.path
    /\ ev.pre.history[ev.pre.history_index + 2] # ev.path
    /\ ~ev.pre.runtime

-----------------------------------------------------------------------------
(* SpecLayout: the measure pass and the paint pass over a Column, a Stack or  *)
(* a Row of children, held in a Box whose padding sets the left and top edge  *)
(* the container is given.                                                    *)

\* The number of children of the container.
MaxChildren == 3

\* A Button, TextAreas of three heights, and a Button that is not visible.
ChildKinds == {"button", "low", "mid", "high", "hidden"}

LayoutChild(c, id) ==
    CASE c = "button" -> Node(id, "Button", Props("b", "tap"), <<>>)
      [] c = "low" -> Node(id, "TextArea", [height |-> Static(VInt(10))], <<>>)
      [] c = "mid" -> Node(id, "TextArea", [height |-> Static(VInt(20))], <<>>)
      [] c = "high" -> Node(id, "TextArea", [height |-> Static(VInt(30))], <<>>)
      [] c = "hidden" ->
            Node(id, "Button", [content |-> Static(Str(<<"h">>)), on_click |-> Handler("tap"),
                                visible |-> Static(VBool(FALSE))], <<>>)

LayoutView(kind, padding, gap, cs) ==
    Node(0, "Box", [padding |-> Static(VInt(3))], <<
        Node(1, kind, [padding |-> Static(VInt(padding)), gap |-> Static(VInt(gap))],
             [k \in 1 .. Len(cs) |-> LayoutChild(cs[k], k + 1)]) >>)

LayoutViews ==
    {LayoutView(kind, padding, gap, cs) :
        kind \in {"Column", "Stack", "Row"}, padding \in {0, 5}, gap \in {0, 5},
        cs \in UNION {[1 .. n -> ChildKinds] : n \in 1 .. MaxChildren}}

\* The widths of the frame buffer: the container is given 100 and 60.
LayoutFbWidths == {106, 66}

LayoutScrolls == {0, 7}

InitLayout ==
    /\ app \in {App("layout", EmptyMap, EmptyMap, view) : view \in LayoutViews}
    /\ values = EmptyMap
    /\ locals = EmptyMap
    /\ dirty = TRUE
    /\ focused_input = None
    /\ current_route = <<"/">>
    /\ layout_boxes = <<>>
    /\ out = <<>>
    /\ overflow_checks = FALSE
    /\ browser = browser_new
    /\ host = host_new
    /\ ev = [op |-> "init"]

\* The container the Box holds.
Container == app.view.children[1]

\* measure_node applied to the container.
MeasureContainer(width) ==
    /\ ev' = [op |-> "measure", width |-> width, size |-> measure_node(Container, Rt, width)]
    /\ UNCHANGED <<values, locals, dirty, focused_input, current_route, layout_boxes, out, app,
                   overflow_checks, browser, host>>

\* Runtime::render into a frame buffer of the given width, scrolled by scroll_y.
RenderAt(done, width, scroll_y) ==
    /\ RuntimeBecomes(Handled(done.rt, focused_input, TRUE, "Continue"))
    /\ layout_boxes' = done.painted.boxes
    /\ ev' = [op |-> "render", width |-> width, scroll_y |-> scroll_y]
    /\ UNCHANGED <<app, overflow_checks, browser, host>>

RenderLayout(width, scroll_y) ==
    RenderAt(runtime_render(app, layout_boxes, Rt, [width |-> width, height |-> ContentFb.height],
                            scroll_y),
             width, scroll_y)

NextLayout ==
    \/ \E width \in LayoutFbWidths : MeasureContainer(width - 6)
    \/ \E width \in LayoutFbWidths, scroll_y \in LayoutScrolls : RenderLayout(width, scroll_y)

SpecLayout == InitLayout /\ [][NextLayout]_vars

\* The children of the container that are visible, in order.
Shown == SelectSeq(Container.children, LAMBDA c : ~Has(c.props, "visible"))

\* The sizes (w_i, h_i) the shown children measure within the given width.
ShownSizes(width) == [k \in 1 .. Len(Shown) |-> measure_node(Shown[k], Rt, width)]

ContainerPadding == Container.props.padding.v.i

ContainerGap == Container.props.gap.v.i

\* The left and top edge the paint pass gives the container, and its width.
ContainerLeft == app.view.props.padding.v.i

ContainerTop == app.view.props.padding.v.i - ev.scroll_y

ContainerWidth == ev.width - 2 * app.view.props.padding.v.i

\* C22: for a Column or Stack with padding p and gap g whose visible children
\* measure (w_i, h_i), i = 1..n, the measured size is
\* (max w_i + 2p, sum h_i + g*(n-1) + 2p); the paint pass places child k at the
\* container's inner x and at y = top + p + the sum over j < k of (h_j + g), so
\* the painted children span exactly the measured height less the padding.
C22_ColumnMeasureAndPaint ==
    (Container.kind \in {"Column", "Stack"} /\ Len(Shown) >= 1) =>
        /\ (ev.op = "measure") =>
                ev.size =
                    <<MaxOf(ShownSizes(ev.width - 2 * ContainerPadding), 1) + 2 * ContainerPadding,
                      SumOf(ShownSizes(ev.width - 2 * ContainerPadding), 2)
                          + ContainerGap * (Len(Shown) - 1) + 2 * ContainerPadding>>
        /\ (ev.op = "render") =>
                /\ Len(layout_boxes) = Len(Shown)
                /\ \A k \in 1 .. Len(Shown) :
                        /\ layout_boxes[k].x = ContainerLeft + ContainerPadding
                        /\ layout_boxes[k].y =
                                ContainerTop + ContainerPadding
                                    + SumOf(SubSeq(ShownSizes(ContainerWidth - 2 * ContainerPadding),
                                                   1, k - 1), 2)
                                    + ContainerGap * (k - 1)
                        /\ layout_boxes[k].height =
                                ShownSizes(ContainerWidth - 2 * ContainerPadding)[k][2]
                /\ layout_boxes[Len(Shown)].y + layout_boxes[Len(Shown)].height - layout_boxes[1].y
                        = measure_node(Container, Rt, ContainerWidth)[2] - 2 * ContainerPadding

ShownHeights == [k \in 1 .. Len(Shown) |-> Shown[k].props.height.v.i]

\* A Column of three children of heights 10, 20 and 30 with gap 5 and padding
\* 0, painted scrolled by 7: the children are at 15 and 40 below the first, and
\* the column measures 70 high.
C22_Witness ==
    /\ ev.op = "render"
    /\ ev.scroll_y = 7
    /\ Container.kind = "Column"
    /\ ContainerGap = 5
    /\ ContainerPadding = 0
    /\ Len(Shown) = 3
    /\ \A k \in 1 .. 3 : Shown[k].kind = "TextArea"
    /\ ShownHeights = <<10, 20, 30>>
    /\ Len(layout_boxes) = 3
    /\ layout_boxes[1].y = -4
    /\ layout_boxes[2].y = 11
    /\ layout_boxes[3].y = 36
    /\ measure_node(Container, Rt, ContainerWidth)[2] = 70

\* C23: for a Row of available width W and gap g whose visible children measure
\* (w_i, h_i), i = 1..n, the total content width is sum w_i + g*(n-1); the first
\* child is placed at x = left + max(0, (W - total) / 2), each next child at the
\* previous x plus the previous width plus g, and child i at
\* y = top + (max h - h_i) / 2.
C23_RowPaint ==
    (ev.op = "render" /\ Container.kind = "Row" /\ Len(Shown) >= 1) =>
        /\ Len(layout_boxes) = Len(Shown)
        /\ layout_boxes[1].x =
                ContainerLeft + ContainerPadding
                    + Max(0, TruncDiv((ContainerWidth - 2 * ContainerPadding)
                                        - (SumOf(ShownSizes(ContainerWidth - 2 * ContainerPadding), 1)
                                             + ContainerGap * (Len(Shown) - 1)), 2))
        /\ \A k \in 2 .. Len(Shown) :
                layout_boxes[k].x =
                    layout_boxes[k - 1].x
                        + ShownSizes(ContainerWidth - 2 * ContainerPadding)[k - 1][1] + ContainerGap
        /\ \A k \in 1 .. Len(Shown) :
                layout_boxes[k].y =
                    ContainerTop + ContainerPadding
                        + TruncDiv(MaxOf(ShownSizes(ContainerWidth - 2 * ContainerPadding), 2)
                                     - ShownSizes(ContainerWidth - 2 * ContainerPadding)[k][2], 2)

\* A Row of two Buttons with gap 5 in an available width of 100: the content is
\* 77 wide, the first Button is at 3 + 11 and the second 41 further; and a Row
\* whose content is wider than the available width starts at its left edge.
C23_Witness ==
    /\ ev.op = "render"
    /\ ev.width = 106
    /\ Container.kind = "Row"
    /\ ContainerGap = 5
    /\ ContainerPadding = 0
    /\ Len(Shown) = 2
    /\ Len(Container.children) = 3
    /\ \A k \in 1 .. 2 : Shown[k].kind = "Button"
    /\ layout_boxes[1].x = 14
    /\ layout_boxes[2].x = 55

====
